---- MODULE Spec2Model ----
(***************************************************************************)
(* Telemetry correlation and aggregation engine of the stage1-baseline     *)
(* analysis scripts (07-analyze-network-data.py, 06-generate-graphs.py).   *)
(*                                                                         *)
(* Number representation.  Latencies are integers (milliseconds).  Every   *)
(* quotient the code forms (a mean, an interpolated percentile, a ratio)   *)
(* is carried as an exact rational <<numerator, denominator>> with a       *)
(* positive denominator; two rationals are compared with RatEq / RatLe.    *)
(* Python's None is the empty sequence and a present value x is <<x>>.     *)
(* Floating-point rounding error is not modelled.                          *)
(***************************************************************************)
EXTENDS Integers, Sequences, FiniteSets, TLC

VARIABLES
    pc,                \* which function has run: "idle" before the call
    values, q, ret,    \* percentile / safe_mean: arguments and return value
    pod_snapshots,     \* summarize_pod_placement: snapshots supplied so far
    pod_history,       \* pod name -> sequence of observations
    ts_node_to_pods,   \* timestamp -> node -> pod names
    placement,         \* the summary summarize_pod_placement returns
    p_exists,          \* load_service_to_service: whether the probe file exists
    lines,             \* load_service_to_service: lines of the probe file read so far
    service_to_nodes,  \* service -> set of nodes hosting an endpoint (argument)
    path_stats,        \* path -> metric -> list of values
    node_pair_totals,  \* (source_node, target_service) -> list of totals
    same_node_total,   \* probes whose source node hosts the target service
    all_total,         \* probes counted for the intra-node ratio
    s2s,               \* the summary load_service_to_service returns
    s2s_records,       \* graph generator: records load_s2s_data returns
    pair_counts,       \* plot_cross_node_ratio: pair -> total and cross counts
    same_node,         \* plot_same_vs_cross_node_cdf: totals of same-node calls
    cross_node,        \* plot_same_vs_cross_node_cdf: totals of cross-node calls
    graph_nodes,       \* graph generator: what its load_service_endpoint_nodes returns
    heat_p95,          \* plot_node_pair_heatmap: (source node, service) -> p95 cell
    hpa_snapshots,     \* build_latency_vs_replicas: (timestamp, per_hpa) list (argument)
    by_ts,             \* timestamp -> totals of the probes at that timestamp
    rows,              \* the rows written to latency-vs-replicas.csv
    endpoint_files,    \* load_service_endpoint_nodes: endpoint files read so far
    raw_probe,         \* the probe string handed to the two probe parsers
    kv,                \* what parse_probe_kv returns for it
    kv_inline,         \* what the inline parser of load_s2s_data builds for it
    arg_pod,           \* pod_to_app: argument
    ret_app,           \* pod_to_app: return value
    burst_files,       \* fortio burst files read so far
    per_burst_total_qps, \* load_e2e_latency: burst index -> combined QPS
    e2e,               \* load_e2e_latency: the summary returned
    mean_qps           \* plot_latency_percentiles: burst index -> QPS of the bar

statVars  == <<values, q, ret>>
placeVars == <<pod_snapshots, pod_history, ts_node_to_pods, placement>>
s2sVars   == <<p_exists, lines, service_to_nodes, path_stats, node_pair_totals,
               same_node_total, all_total, s2s>>
graphVars == <<s2s_records, pair_counts, same_node, cross_node, graph_nodes, heat_p95>>
callVars  == <<raw_probe, kv, kv_inline, arg_pod, ret_app>>
e2eVars   == <<burst_files, per_burst_total_qps, e2e, mean_qps>>
replicaVars == <<hpa_snapshots, by_ts, rows>>
vars      == <<pc, statVars, placeVars, s2sVars, graphVars, replicaVars, endpoint_files,
               callVars, e2eVars>>

----------------------------------------------------------------------------
(* Optional values and exact rationals *)

None == <<>>

Some(x) == <<x>>

Rat(n, d) == <<n, d>>

RatEq(a, b) == a[1] * b[2] = b[1] * a[2]

RatLe(a, b) == a[1] * b[2] <= b[1] * a[2]

\* math.floor and math.ceil of a rational with positive denominator
RatFloor(a) == a[1] \div a[2]

RatCeil(a) == -((-a[1]) \div a[2])

RECURSIVE SumSeq(_)
SumSeq(s) == IF s = <<>> THEN 0 ELSE Head(s) + SumSeq(Tail(s))

IsSorted(s) == \A i \in 1..(Len(s) - 1) : s[i] <= s[i + 1]

\* dict.get(key, default) on a mapping
Get(m, k, default) == IF k \in DOMAIN m THEN m[k] ELSE default

----------------------------------------------------------------------------
(* Bounds of the percentile inputs *)

MaxLen == 4

MaxVal == 4

Hundred == 100

Samples == UNION {[1..n -> 1..MaxVal] : n \in 0..MaxLen}

----------------------------------------------------------------------------
(* percentile and safe_mean *)

\* A rank position one sample short: position (n-2)*q/100.
PercentileShortRank(vs, qq) ==
    IF vs = <<>> THEN None
    ELSE IF Len(vs) = 1 THEN Some(Rat(vs[1], 1))
    ELSE LET pos  == Rat((Len(vs) - 2) * qq, Hundred)
             low  == RatFloor(pos)
             high == RatCeil(pos)
             wnum == pos[1] - low * pos[2]
         IN  IF low = high THEN Some(Rat(vs[low + 1], 1))
             ELSE Some(Rat(vs[low + 1] * (pos[2] - wnum) + vs[high + 1] * wnum, pos[2]))

\* The interpolation weights exchanged between the two neighbours.
PercentileSwappedWeights(vs, qq) ==
    IF vs = <<>> THEN None
    ELSE IF Len(vs) = 1 THEN Some(Rat(vs[1], 1))
    ELSE LET pos  == Rat((Len(vs) - 1) * qq, Hundred)
             low  == RatFloor(pos)
             high == RatCeil(pos)
             wnum == pos[1] - low * pos[2]
         IN  IF low = high THEN Some(Rat(vs[low + 1], 1))
             ELSE Some(Rat(vs[low + 1] * wnum + vs[high + 1] * (pos[2] - wnum), pos[2]))

\* An empty sample answered with 0.0 instead of None.
PercentileZeroOnEmpty(vs, qq) ==
    IF Len(vs) <= 1 THEN Some(Rat(IF vs = <<>> THEN 0 ELSE vs[1], 1))
    ELSE LET pos  == Rat((Len(vs) - 1) * qq, Hundred)
             low  == RatFloor(pos)
             high == RatCeil(pos)
             wnum == pos[1] - low * pos[2]
         IN  IF low = high THEN Some(Rat(vs[low + 1], 1))
             ELSE Some(Rat(vs[low + 1] * (pos[2] - wnum) + vs[high + 1] * wnum, pos[2]))

\* The weight counted twice: values[low] * (1 - 2 * weight) + values[high] * 2 * weight.
PercentileDoubleWeight(vs, qq) ==
    IF vs = <<>> THEN None
    ELSE IF Len(vs) = 1 THEN Some(Rat(vs[1], 1))
    ELSE LET pos  == Rat((Len(vs) - 1) * qq, Hundred)
             low  == RatFloor(pos)
             high == RatCeil(pos)
             wnum == pos[1] - low * pos[2]
         IN  IF low = high THEN Some(Rat(vs[low + 1], 1))
             ELSE Some(Rat(vs[low + 1] * (pos[2] - 2 * wnum) + vs[high + 1] * 2 * wnum, pos[2]))

\* percentile(values, q): sequences are 1-based, so values[low] is vs[low + 1].
\* weight = pos - low is wnum / pos[2].
percentile(vs, qq) ==
    IF vs = <<>> THEN None
    ELSE IF Len(vs) = 1 THEN Some(Rat(vs[1], 1))
    ELSE LET pos  == Rat((Len(vs) - 1) * qq, Hundred)
             low  == RatFloor(pos)
             high == RatCeil(pos)
             wnum == pos[1] - low * pos[2]
         IN  IF low = high THEN Some(Rat(vs[low + 1], 1))
             ELSE Some(Rat(vs[low + 1] * (pos[2] - wnum) + vs[high + 1] * wnum, pos[2]))

\* safe_mean(values): statistics.fmean is the sum over the count.
safe_mean(vs) ==
    IF vs = <<>> THEN None ELSE Some(Rat(SumSeq(vs), Len(vs)))

StatIdle ==
    /\ values = <<>>
    /\ q = 0
    /\ ret = None

PlaceIdle ==
    /\ pod_snapshots = <<>>
    /\ pod_history = <<>>
    /\ ts_node_to_pods = <<>>
    /\ placement = None

S2SIdle ==
    /\ p_exists = TRUE
    /\ lines = <<>>
    /\ service_to_nodes = <<>>
    /\ path_stats = <<>>
    /\ node_pair_totals = <<>>
    /\ same_node_total = 0
    /\ all_total = 0
    /\ s2s = None

GraphIdle ==
    /\ s2s_records = <<>>
    /\ pair_counts = <<>>
    /\ same_node = <<>>
    /\ cross_node = <<>>
    /\ graph_nodes = <<>>
    /\ heat_p95 = <<>>

ReplicaIdle ==
    /\ hpa_snapshots = <<>>
    /\ by_ts = <<>>
    /\ rows = None

EndpointIdle == endpoint_files = <<>>

CallIdle ==
    /\ raw_probe = <<>>
    /\ kv = <<>>
    /\ kv_inline = <<>>
    /\ arg_pod = <<>>
    /\ ret_app = <<>>

E2EIdle ==
    /\ burst_files = <<>>
    /\ per_burst_total_qps = <<>>
    /\ e2e = None
    /\ mean_qps = <<>>

InitStat ==
    /\ pc = "idle"
    /\ values \in Samples
    /\ q \in 0..Hundred
    /\ ret = None
    /\ PlaceIdle
    /\ S2SIdle
    /\ GraphIdle
    /\ ReplicaIdle
    /\ EndpointIdle
    /\ CallIdle
    /\ E2EIdle

CallPercentile ==
    /\ pc = "idle"
    /\ ret' = percentile(values, q)
    /\ pc' = "percentile"
    /\ UNCHANGED <<values, q, placeVars, s2sVars, graphVars, replicaVars, endpoint_files,
                   callVars, e2eVars>>

CallSafeMean ==
    /\ pc = "idle"
    /\ ret' = safe_mean(values)
    /\ pc' = "safe_mean"
    /\ UNCHANGED <<values, q, placeVars, s2sVars, graphVars, replicaVars, endpoint_files,
                   callVars, e2eVars>>

NextStat == CallPercentile \/ CallSafeMean

SpecStat == InitStat /\ [][NextStat]_vars

----------------------------------------------------------------------------
(* summarize_pod_placement *)

\* Snapshots supplied to one call (bound of the model).
MaxSnaps == 3

\* Timestamps are sortable strings in the code; the model uses integers whose
\* order stands for the order of the strings.
Timestamps == {1, 2}

\* A pod of a snapshot, flattened: metadata.name, metadata.labels.app and
\* spec.nodeName. A pod that is not scheduled has no nodeName key.
Pod(name, app) == [name |-> name, app |-> app]

PodOn(name, app, node) == [name |-> name, app |-> app, nodeName |-> node]

Pod1Obs == {PodOn("p1", "web", "A"), PodOn("p1", "web", "B"), Pod("p1", "web")}

Pod2Obs == {PodOn("p2", "web", "A"), PodOn("p2", "db", "B")}

\* The items of a snapshot: pod names are unique within one snapshot. A
\* snapshot is empty, or lists p1 and possibly p2.
ItemLists ==
    {<<>>} \cup {<<a>> \o b : a \in Pod1Obs, b \in {<<>>} \cup {<<p>> : p \in Pod2Obs}}

Snapshots == [timestamp : Timestamps, items : ItemLists]

\* Order of pod names, for sorted(...) over names.
NameRank(name) ==
    CASE name = "p1" -> 1
      [] name = "p2" -> 2
      [] OTHER -> 3

NameBefore(a, b) == NameRank(a) < NameRank(b)

\* The three field reads of lines 106-108 (and 130-131, 150-151).
PodName(pod) == Get(pod, "name", "unknown")

PodApp(pod) == Get(pod, "app", "unknown")

PodNode(pod) == Get(pod, "nodeName", "unknown")

\* Lines 101-111, the inner loop: one history entry per pod of the snapshot.
RECURSIVE HistoryAfter(_, _, _)
HistoryAfter(hist, ts, items) ==
    IF items = <<>> THEN hist
    ELSE LET pod   == Head(items)
             name  == PodName(pod)
             entry == [timestamp |-> ts, node |-> PodNode(pod), app |-> PodApp(pod)]
             old   == Get(hist, name, <<>>)
             hist2 == [k \in DOMAIN hist \cup {name} |->
                          IF k = name THEN Append(old, entry) ELSE hist[k]]
         IN  HistoryAfter(hist2, ts, Tail(items))

\* Lines 100-111: node -> names of the pods of the snapshot on that node.
RECURSIVE NodeToPods(_, _)
NodeToPods(acc, items) ==
    IF items = <<>> THEN acc
    ELSE LET pod  == Head(items)
             node == PodNode(pod)
             old  == Get(acc, node, <<>>)
             acc2 == [k \in DOMAIN acc \cup {node} |->
                         IF k = node THEN Append(old, PodName(pod)) ELSE acc[k]]
         IN  NodeToPods(acc2, Tail(items))

\* Lines 129-133 and 149-153: Counter app -> node -> pods, nodes that are
\* empty or "unknown" left out.
RECURSIVE CountByAppNode(_, _)
CountByAppNode(acc, items) ==
    IF items = <<>> THEN acc
    ELSE LET pod  == Head(items)
             app  == PodApp(pod)
             node == PodNode(pod)
             old  == Get(acc, app, <<>>)
             ctr  == [k \in DOMAIN old \cup {node} |->
                         IF k = node THEN Get(old, node, 0) + 1 ELSE old[k]]
             acc2 == [k \in DOMAIN acc \cup {app} |-> IF k = app THEN ctr ELSE acc[k]]
         IN  IF node # "" /\ node # "unknown"
             THEN CountByAppNode(acc2, Tail(items))
             ELSE CountByAppNode(acc, Tail(items))

\* round(x, 2) of a non-negative rational: nearest hundredth, ties to even.
Round2(x) ==
    LET scaled == Hundred * x[1]
        whole  == scaled \div x[2]
        rest   == scaled % x[2]
    IN  IF 2 * rest < x[2] THEN Rat(whole, Hundred)
        ELSE IF 2 * rest > x[2] THEN Rat(whole + 1, Hundred)
        ELSE Rat(whole + (whole % 2), Hundred)

MaxOf(S) == CHOOSE m \in S : \A o \in S : o <= m

\* A pod counted as moved as soon as it was observed twice (len(nodes) > 1
\* instead of len(unique) > 1).
PodMovementsByObservations(hist) ==
    LET moved == {name \in DOMAIN hist : Len(hist[name]) > 1}
    IN  [name \in moved |-> hist[name]]

\* Lines 114-119.
PodMovements(hist) ==
    LET moved == {name \in DOMAIN hist :
                     Cardinality({hist[name][i].node : i \in 1..Len(hist[name])}) > 1}
    IN  [name \in moved |-> hist[name]]

MinOf(S) == CHOOSE m \in S : \A o \in S : m <= o

\* The first key of the sorted list taken instead of the last.
LatestTsFirstKey(byTs) ==
    IF DOMAIN byTs = {} THEN None ELSE Some(MinOf(DOMAIN byTs))

\* max(keys, default="") in place of the guarded expression; 0 stands for "".
LatestTsDefaulted(byTs) ==
    IF DOMAIN byTs = {} THEN Some(0) ELSE Some(MaxOf(DOMAIN byTs))

\* Line 121: sorted(keys)[-1], or None.
LatestTs(byTs) ==
    IF DOMAIN byTs = {} THEN None ELSE Some(MaxOf(DOMAIN byTs))

\* Line 125: the first supplied snapshot that carries the latest timestamp.
LatestSnap(snaps, latest_ts) ==
    LET hits == {i \in 1..Len(snaps) : latest_ts = Some(snaps[i].timestamp)}
    IN  IF hits = {} THEN None
        ELSE Some(snaps[CHOOSE i \in hits : \A j \in hits : i <= j])

\* Lines 126-139.
ServiceNodeSpread(snaps, latest_ts) ==
    LET latest_snap == LatestSnap(snaps, latest_ts)
        counter     == IF latest_snap = None THEN <<>>
                       ELSE CountByAppNode(<<>>, latest_snap[1].items)
    IN  [svc \in DOMAIN counter |->
            [nodes_used        |-> DOMAIN counter[svc],
             node_count        |-> Cardinality(DOMAIN counter[svc]),
             pod_count_by_node |-> counter[svc]]]

\* The total divided by the number of snapshots in which the (service, node)
\* pair appears instead of by the number of snapshots.
ServiceNodeSpreadAvgConditional(snaps) ==
    LET per_snap == [i \in 1..Len(snaps) |-> CountByAppNode(<<>>, snaps[i].items)]
        all_services_avg == UNION {DOMAIN per_snap[i] : i \in 1..Len(snaps)}
        all_nodes_avg ==
            UNION {UNION {DOMAIN per_snap[i][svc] : svc \in DOMAIN per_snap[i]} :
                      i \in 1..Len(snaps)}
        count(i, svc, node) == Get(Get(per_snap[i], svc, <<>>), node, 0)
        total(svc, node) == SumSeq([i \in 1..Len(snaps) |-> count(i, svc, node)])
        seen(svc, node) == Cardinality({i \in 1..Len(snaps) : count(i, svc, node) > 0})
    IN  [svc \in all_services_avg |->
            [nodes_used        |-> all_nodes_avg,
             node_count        |-> Cardinality(all_nodes_avg),
             pod_count_by_node |->
                 [node \in all_nodes_avg |->
                     IF seen(svc, node) = 0 THEN Rat(0, Hundred)
                     ELSE Round2(Rat(total(svc, node), seen(svc, node)))]]]

\* The total divided by one more than the number of snapshots.
ServiceNodeSpreadAvgOffByOne(snaps) ==
    LET per_snap == [i \in 1..Len(snaps) |-> CountByAppNode(<<>>, snaps[i].items)]
        all_services_avg == UNION {DOMAIN per_snap[i] : i \in 1..Len(snaps)}
        all_nodes_avg ==
            UNION {UNION {DOMAIN per_snap[i][svc] : svc \in DOMAIN per_snap[i]} :
                      i \in 1..Len(snaps)}
        total(svc, node) ==
            SumSeq([i \in 1..Len(snaps) |-> Get(Get(per_snap[i], svc, <<>>), node, 0)])
    IN  [svc \in all_services_avg |->
            [nodes_used        |-> all_nodes_avg,
             node_count        |-> Cardinality(all_nodes_avg),
             pod_count_by_node |->
                 [node \in all_nodes_avg |-> Round2(Rat(total(svc, node), Len(snaps) + 1))]]]

\* Lines 142-167.
ServiceNodeSpreadAvg(snaps) ==
    LET per_snap == [i \in 1..Len(snaps) |-> CountByAppNode(<<>>, snaps[i].items)]
        all_services_avg == UNION {DOMAIN per_snap[i] : i \in 1..Len(snaps)}
        all_nodes_avg ==
            UNION {UNION {DOMAIN per_snap[i][svc] : svc \in DOMAIN per_snap[i]} :
                      i \in 1..Len(snaps)}
        n_snapshots == Len(snaps)
        total(svc, node) ==
            SumSeq([i \in 1..Len(snaps) |-> Get(Get(per_snap[i], svc, <<>>), node, 0)])
    IN  [svc \in all_services_avg |->
            [nodes_used        |-> all_nodes_avg,
             node_count        |-> Cardinality(all_nodes_avg),
             pod_count_by_node |->
                 [node \in all_nodes_avg |-> Round2(Rat(total(svc, node), n_snapshots))]]]

\* Lines 122 and 169-176: ts_node_to_pods.get(latest_ts, {}) and the returned
\* summary.
PlacementSummary(snaps, hist, byTs) ==
    LET latest_ts == LatestTs(byTs)
        latest    == IF latest_ts = None THEN <<>> ELSE Get(byTs, latest_ts[1], <<>>)
    IN  [latest_timestamp        |-> latest_ts,
         latest_node_to_pods     |->
             [node \in DOMAIN latest |-> SortSeq(latest[node], NameBefore)],
         pod_movements           |-> PodMovements(hist),
         service_node_spread     |-> ServiceNodeSpread(snaps, latest_ts),
         service_node_spread_avg |-> ServiceNodeSpreadAvg(snaps),
         snapshot_count          |-> Len(snaps)]

InitPlace ==
    /\ pc = "replay"
    /\ StatIdle
    /\ PlaceIdle
    /\ S2SIdle
    /\ GraphIdle
    /\ ReplicaIdle
    /\ EndpointIdle
    /\ CallIdle
    /\ E2EIdle

\* One iteration of the loop of lines 98-112 over the next supplied snapshot.
ReplaySnapshot ==
    /\ pc = "replay"
    /\ Len(pod_snapshots) < MaxSnaps
    /\ \E snap \in Snapshots :
          /\ pod_snapshots' = Append(pod_snapshots, snap)
          /\ pod_history' = HistoryAfter(pod_history, snap.timestamp, snap.items)
          /\ ts_node_to_pods' =
                [t \in DOMAIN ts_node_to_pods \cup {snap.timestamp} |->
                    IF t = snap.timestamp THEN NodeToPods(<<>>, snap.items)
                    ELSE ts_node_to_pods[t]]
    /\ UNCHANGED <<pc, placement, statVars, s2sVars, graphVars, replicaVars, endpoint_files,
                   callVars, e2eVars>>

\* Lines 114-176, once the supplied list is exhausted.
SummarizePlacement ==
    /\ pc = "replay"
    /\ placement' = Some(PlacementSummary(pod_snapshots, pod_history, ts_node_to_pods))
    /\ pc' = "placed"
    /\ UNCHANGED <<pod_snapshots, pod_history, ts_node_to_pods, statVars, s2sVars,
                   graphVars, replicaVars, endpoint_files, callVars, e2eVars>>

NextPlace == ReplaySnapshot \/ SummarizePlacement

SpecPlace == InitPlace /\ [][NextPlace]_vars

----------------------------------------------------------------------------
(* parse_probe_kv and load_service_to_service *)

\* Probe lines read by one call (bound of the model).
MaxProbes == 3

FourHundred == 400

Thousand == 1000

\* A probe string is the sequence of its whitespace-separated tokens. A token
\* is a bare word (no "=") or key=text; the text is a decimal number of
\* seconds written in thousandths ("0.010" is Dec(10)), an integer literal
\* ("200" is Whole(200)) or not a number.
Word == [eq |-> FALSE]

Tok(k, v) == [eq |-> TRUE, k |-> k, v |-> v]

Dec(n) == [form |-> "dec", n |-> n]

Whole(n) == [form |-> "int", n |-> n]

NaN == [form |-> "bad"]

\* float(v) * 1000.0, as <<ok, value>>.
FloatTimes1000(v) ==
    CASE v.form = "dec" -> <<TRUE, v.n>>
      [] v.form = "int" -> <<TRUE, v.n * Thousand>>
      [] OTHER -> <<FALSE, 0>>

\* int(v), as <<ok, value>>: only an integer literal converts.
IntOf(v) == IF v.form = "int" THEN <<TRUE, v.n>> ELSE <<FALSE, 0>>

\* out[k] = x
Put(m, k, x) == [j \in DOMAIN m \cup {k} |-> IF j = k THEN x ELSE m[j]]

\* The whole record given up at the first token that does not parse.
RECURSIVE ParseTokensAbortOnBad(_, _)
ParseTokensAbortOnBad(out, tokens) ==
    IF tokens = <<>> THEN out
    ELSE LET token == Head(tokens)
             conv  == IF ~token.eq THEN <<FALSE, 0>>
                      ELSE IF token.k = "code" THEN IntOf(token.v)
                      ELSE FloatTimes1000(token.v)
         IN  IF conv[1] THEN ParseTokensAbortOnBad(Put(out, token.k, conv[2]), Tail(tokens))
             ELSE out

\* Lines 257-273.
RECURSIVE ParseTokens(_, _)
ParseTokens(out, tokens) ==
    IF tokens = <<>> THEN out
    ELSE LET token == Head(tokens)
             conv  == IF ~token.eq THEN <<FALSE, 0>>
                      ELSE IF token.k = "code" THEN IntOf(token.v)
                      ELSE FloatTimes1000(token.v)
         IN  IF conv[1] THEN ParseTokens(Put(out, token.k, conv[2]), Tail(tokens))
             ELSE ParseTokens(out, Tail(tokens))

parse_probe_kv(raw) == ParseTokens(<<>>, raw)

Metrics == <<"dns", "connect", "ttfb", "total">>

\* list.append on path_stats[path][metric] (both levels are defaultdicts)
AppendStat(stats, path, metric, x) ==
    LET old == Get(stats, path, <<>>)
    IN  Put(stats, path, Put(old, metric, Append(Get(old, metric, <<>>), x)))

\* Lines 302-304.
RECURSIVE AppendMetrics(_, _, _, _)
AppendMetrics(stats, path, metrics, names) ==
    IF names = <<>> THEN stats
    ELSE LET metric == Head(names)
         IN  AppendMetrics(IF metric \in DOMAIN metrics
                           THEN AppendStat(stats, path, metric, metrics[metric])
                           ELSE stats,
                           path, metrics, Tail(names))

IntLe(a, b) == a <= b

sorted(s) == SortSeq(s, IntLe)

\* zip(a, b): pairs by position, as long as the shorter list.
Zip(a, b) ==
    LET n == IF Len(a) <= Len(b) THEN Len(a) ELSE Len(b)
    IN  [i \in 1..n |-> <<a[i], b[i]>>]

\* Lines 322-327: the list entries are numbers, never None, so the filter of
\* line 326 keeps every zipped pair.
QueueingList(metrics) ==
    LET connect_list == Get(metrics, "connect", <<>>)
        ttfb_list    == Get(metrics, "ttfb", <<>>)
        pairs        == Zip(ttfb_list, connect_list)
    IN  [i \in 1..Len(pairs) |-> pairs[i][1] - pairs[i][2]]

\* The threshold tested with > instead of >=.
ErrorRateStrict(codes) ==
    IF codes = <<>> THEN None
    ELSE Some(Rat(Cardinality({i \in 1..Len(codes) : codes[i] > FourHundred}), Len(codes)))

\* Lines 337-341.
ErrorRate(codes) ==
    IF codes = <<>> THEN None
    ELSE Some(Rat(Cardinality({i \in 1..Len(codes) : codes[i] >= FourHundred}), Len(codes)))

\* The totals taken in read order, without the sort of line 318.
PathEntryUnsorted(metrics) ==
    LET totals        == Get(metrics, "total", <<>>)
        connect_list  == Get(metrics, "connect", <<>>)
        ttfb_list     == Get(metrics, "ttfb", <<>>)
        queueing_list == QueueingList(metrics)
    IN  [samples         |-> Len(totals),
         total_avg_ms    |-> safe_mean(totals),
         total_p95_ms    |-> percentile(totals, 95),
         total_p99_ms    |-> percentile(totals, 99),
         dns_avg_ms      |-> safe_mean(Get(metrics, "dns", <<>>)),
         connect_avg_ms  |-> safe_mean(connect_list),
         ttfb_avg_ms     |-> safe_mean(ttfb_list),
         queueing_avg_ms |-> IF queueing_list # <<>> THEN safe_mean(queueing_list) ELSE None,
         error_rate      |-> ErrorRate(Get(metrics, "code", <<>>))]

\* Lines 328-342: the entry of one path with at least one total.
PathEntry(metrics) ==
    LET totals        == sorted(Get(metrics, "total", <<>>))
        connect_list  == Get(metrics, "connect", <<>>)
        ttfb_list     == Get(metrics, "ttfb", <<>>)
        queueing_list == QueueingList(metrics)
    IN  [samples         |-> Len(totals),
         total_avg_ms    |-> safe_mean(totals),
         total_p95_ms    |-> percentile(totals, 95),
         total_p99_ms    |-> percentile(totals, 99),
         dns_avg_ms      |-> safe_mean(Get(metrics, "dns", <<>>)),
         connect_avg_ms  |-> safe_mean(connect_list),
         ttfb_avg_ms     |-> safe_mean(ttfb_list),
         queueing_avg_ms |-> IF queueing_list # <<>> THEN safe_mean(queueing_list) ELSE None,
         error_rate      |-> ErrorRate(Get(metrics, "code", <<>>))]

\* Lines 315-342: paths without a total are skipped.
PathSummary(stats) ==
    LET kept == {path \in DOMAIN stats : Get(stats[path], "total", <<>>) # <<>>}
    IN  [path \in kept |-> PathEntry(stats[path])]

\* Lines 344-356.
NodePairSummary(pairTotals) ==
    [pair \in {pr \in DOMAIN pairTotals : pairTotals[pr] # <<>>} |->
        [source_node    |-> pair[1],
         target_service |-> pair[2],
         samples        |-> Len(pairTotals[pair]),
         total_avg_ms   |-> safe_mean(pairTotals[pair]),
         total_p95_ms   |-> percentile(sorted(pairTotals[pair]), 95),
         total_p99_ms   |-> percentile(sorted(pairTotals[pair]), 99)]]

\* Lines 358-362. total_samples adds the totals of the paths kept.
GlobalSummary(stats, same, all) ==
    LET summary == PathSummary(stats)
        paths   == DOMAIN summary
        count   == [path \in paths |-> summary[path].samples]
        RECURSIVE Total(_)
        Total(S) == IF S = {} THEN 0
                    ELSE LET x == CHOOSE x \in S : TRUE IN count[x] + Total(S \ {x})
    IN  [path_count       |-> Cardinality(paths),
         total_samples    |-> Total(paths),
         intra_node_ratio |-> IF all > 0 THEN Some(Rat(same, all)) ELSE None]

\* A line of service-to-service-latency.jsonl. Its kind is "blank" (empty
\* after strip), "invalid" (json.loads raises), "value" (JSON that is not an
\* object: a list, a number, a string, null) or "object", a JSON object with
\* the keys it carries.
ProbeRow(pod, svc, node, probe) ==
    [kind |-> "object",
     row  |-> [source_pod |-> pod, target_service |-> svc, source_node |-> node,
               probe |-> probe]]

BlankLine == [kind |-> "blank"]

InvalidLine == [kind |-> "invalid"]

ValueLine == [kind |-> "value"]

\* Lines 287-293: the lines the loop skips.
Skipped(line) == line.kind \in {"blank", "invalid"}

\* Line 294: row.get on a JSON value that is not an object raises
\* AttributeError, which nothing catches.
Raises(line) == line.kind = "value"

\* Line 296: row.get("source_node") or "unknown".
SourceNodeOf(row) ==
    LET got_node == Get(row, "source_node", "")
    IN  IF got_node # "" THEN got_node ELSE "unknown"

\* Lines 294-304: path_stats after one row.
StatsAfter(stats, row) ==
    LET source_pod     == Get(row, "source_pod", "unknown")
        target_service == Get(row, "target_service", "unknown")
        path           == <<source_pod, target_service>>
        metrics        == parse_probe_kv(Get(row, "probe", <<>>))
        with_code      == IF "code" \in DOMAIN metrics
                          THEN AppendStat(stats, path, "code", metrics["code"])
                          ELSE stats
    IN  AppendMetrics(with_code, path, metrics, Metrics)

\* Lines 306-307 without the test of the source node.
PairsAfterAnySource(pairs, row) ==
    LET target_service == Get(row, "target_service", "unknown")
        metrics        == parse_probe_kv(Get(row, "probe", <<>>))
        pair           == <<SourceNodeOf(row), target_service>>
    IN  IF "total" \in DOMAIN metrics
        THEN Put(pairs, pair, Append(Get(pairs, pair, <<>>), metrics["total"]))
        ELSE pairs

\* Lines 306-307: node_pair_totals after one row.
PairsAfter(pairs, row) ==
    LET target_service == Get(row, "target_service", "unknown")
        source_node    == SourceNodeOf(row)
        metrics        == parse_probe_kv(Get(row, "probe", <<>>))
        pair           == <<source_node, target_service>>
    IN  IF "total" \in DOMAIN metrics /\ source_node # "unknown"
        THEN Put(pairs, pair, Append(Get(pairs, pair, <<>>), metrics["total"]))
        ELSE pairs

\* Lines 309-310: the condition under which a row is counted in all_total.
Counted(row, s2n) ==
    LET target_nodes == Get(s2n, Get(row, "target_service", "unknown"), {})
    IN  SourceNodeOf(row) # "" /\ target_nodes # {}

\* Line 312: the row's source node hosts its target service.
OnTargetNode(row, s2n) ==
    SourceNodeOf(row) \in Get(s2n, Get(row, "target_service", "unknown"), {})

\* Lines 311-313: all_total and same_node_total after one row.
AllAfter(all, row, s2n) == IF Counted(row, s2n) THEN all + 1 ELSE all

SameAfter(same, row, s2n) ==
    IF Counted(row, s2n) /\ OnTargetNode(row, s2n) THEN same + 1 ELSE same

\* Lines 363-367: the returned summary.
S2SResult(stats, pairs, same, all) ==
    [path_summary      |-> PathSummary(stats),
     global_summary    |-> GlobalSummary(stats, same, all),
     node_pair_summary |-> NodePairSummary(pairs)]

\* One iteration of the loop of lines 286-313, on a file of at most limit
\* lines.
ReadLineWithin(line, limit) ==
    /\ pc = "read"
    /\ p_exists
    /\ Len(lines) < limit
    /\ lines' = Append(lines, line)
    /\ IF Skipped(line)
       THEN UNCHANGED <<pc, path_stats, node_pair_totals, same_node_total, all_total>>
       ELSE IF Raises(line)
       THEN /\ pc' = "raised"
            /\ UNCHANGED <<path_stats, node_pair_totals, same_node_total, all_total>>
       ELSE /\ path_stats' = StatsAfter(path_stats, line.row)
            /\ node_pair_totals' = PairsAfter(node_pair_totals, line.row)
            /\ all_total' = AllAfter(all_total, line.row, service_to_nodes)
            /\ same_node_total' = SameAfter(same_node_total, line.row, service_to_nodes)
            /\ UNCHANGED pc
    /\ UNCHANGED <<p_exists, service_to_nodes, s2s, statVars, placeVars, graphVars,
                   replicaVars, endpoint_files, callVars, e2eVars>>

ReadLine(line) == ReadLineWithin(line, MaxProbes)

\* Lines 315-367, once every line is read.
SummarizeS2S ==
    /\ pc = "read"
    /\ p_exists
    /\ s2s' = Some(S2SResult(path_stats, node_pair_totals, same_node_total, all_total))
    /\ pc' = "summarized"
    /\ UNCHANGED <<p_exists, lines, service_to_nodes, path_stats, node_pair_totals,
                   same_node_total, all_total, statVars, placeVars, graphVars,
                   replicaVars, endpoint_files, callVars, e2eVars>>

\* Lines 283-367 over a whole probe file: the loop folded over the lines ls,
\* then the three summaries.
RECURSIVE FoldLines(_, _, _, _, _, _)
FoldLines(stats, pairs, same, all, ls, s2n) ==
    IF ls = <<>> THEN S2SResult(stats, pairs, same, all)
    ELSE IF Skipped(Head(ls)) THEN FoldLines(stats, pairs, same, all, Tail(ls), s2n)
    ELSE FoldLines(StatsAfter(stats, Head(ls).row), PairsAfter(pairs, Head(ls).row),
                   SameAfter(same, Head(ls).row, s2n), AllAfter(all, Head(ls).row, s2n),
                   Tail(ls), s2n)

load_service_to_service(ls, s2n) == FoldLines(<<>>, <<>>, 0, 0, ls, s2n)

\* The endpoint map of the runs below: cart is hosted on n1, db on n2.
EndpointMap == [svc \in {"cart", "db"} |-> IF svc = "cart" THEN {"n1"} ELSE {"n2"}]

InitS2S ==
    /\ pc = "read"
    /\ StatIdle
    /\ PlaceIdle
    /\ p_exists = TRUE
    /\ lines = <<>>
    /\ service_to_nodes = EndpointMap
    /\ path_stats = <<>>
    /\ node_pair_totals = <<>>
    /\ same_node_total = 0
    /\ all_total = 0
    /\ s2s = None
    /\ GraphIdle
    /\ ReplicaIdle
    /\ EndpointIdle
    /\ CallIdle
    /\ E2EIdle

\* Probes of two paths that carry a total and any of connect and ttfb.
TimingProbes ==
    {c \o t \o <<Tok("total", Dec(100))>> :
        c \in {<<>>, <<Tok("connect", Dec(10))>>, <<Tok("connect", Dec(30))>>},
        t \in {<<>>, <<Tok("ttfb", Dec(20))>>, <<Tok("ttfb", Dec(25))>>}}

TimingLines ==
    {ProbeRow("web-1", svc, "n1", probe) : svc \in {"cart", "db"}, probe \in TimingProbes}

ReadTimingLine == \E line \in TimingLines : ReadLine(line)

NextTiming == ReadTimingLine \/ SummarizeS2S

SpecTiming == InitS2S /\ [][NextTiming]_vars

\* Probes of two paths with or without a total and with a code below the
\* threshold, at it, unparseable or absent.
CodeProbes ==
    {t \o c :
        t \in {<<>>, <<Tok("total", Dec(100))>>},
        c \in {<<>>, <<Tok("code", Whole(399))>>, <<Tok("code", Whole(400))>>,
               <<Tok("code", NaN)>>}}

CodeLines ==
    {ProbeRow("web-1", svc, "n1", probe) : svc \in {"cart", "db"}, probe \in CodeProbes}

ReadCodeLine == \E line \in CodeLines : ReadLine(line)

NextCodes == ReadCodeLine \/ SummarizeS2S

SpecCodes == InitS2S /\ [][NextCodes]_vars

\* Probes of two paths with no total or one of three totals.
TotalProbes ==
    {<<>>, <<Tok("total", Dec(100))>>, <<Tok("total", Dec(200))>>,
     <<Tok("total", Dec(300))>>}

TotalLines ==
    {ProbeRow("web-1", svc, "n1", probe) : svc \in {"cart", "db"}, probe \in TotalProbes}

ReadTotalLine == \E line \in TotalLines : ReadLine(line)

NextTotals == ReadTotalLine \/ SummarizeS2S

SpecTotals == InitS2S /\ [][NextTotals]_vars

\* A probe file with well-formed probes, blank lines, lines that are not JSON
\* and lines that are JSON but no object.
MalformedLines ==
    {ProbeRow("web-1", "cart", "n1", probe) :
        probe \in {<<Tok("total", Dec(100))>>, <<Tok("total", Dec(200)), Tok("code", Whole(200))>>}}
    \cup {BlankLine, InvalidLine, ValueLine}

ReadMalformedLine == \E line \in MalformedLines : ReadLine(line)

NextMalformed == ReadMalformedLine \/ SummarizeS2S

SpecMalformed == InitS2S /\ [][NextMalformed]_vars

\* Line 279: the summary returned when the probe file does not exist.
AbsentResult == [path_summary |-> <<>>, global_summary |-> <<>>, node_pair_summary |-> <<>>]

\* Lines 277-279: the early return for a missing probe file.
ReturnAbsent ==
    /\ pc = "read"
    /\ ~p_exists
    /\ s2s' = Some(AbsentResult)
    /\ pc' = "summarized"
    /\ UNCHANGED <<p_exists, lines, service_to_nodes, path_stats, node_pair_totals,
                   same_node_total, all_total, statVars, placeVars, graphVars,
                   replicaVars, endpoint_files, callVars, e2eVars>>

\* A run whose probe file may be missing.
InitAbsent ==
    /\ pc = "read"
    /\ StatIdle
    /\ PlaceIdle
    /\ p_exists \in BOOLEAN
    /\ lines = <<>>
    /\ service_to_nodes = EndpointMap
    /\ path_stats = <<>>
    /\ node_pair_totals = <<>>
    /\ same_node_total = 0
    /\ all_total = 0
    /\ s2s = None
    /\ GraphIdle
    /\ ReplicaIdle
    /\ EndpointIdle
    /\ CallIdle
    /\ E2EIdle

\* Lines of a probe file that holds few or no records.
AbsentLines ==
    {ProbeRow("web-1", "cart", node, <<Tok("total", Dec(100))>>) : node \in {"n1", "n2"}}
    \cup {BlankLine, InvalidLine}

ReadAbsentLine == \E line \in AbsentLines : ReadLine(line)

NextAbsent == ReadAbsentLine \/ SummarizeS2S \/ ReturnAbsent

SpecAbsent == InitAbsent /\ [][NextAbsent]_vars

\* Probes of two pods to cart, from n1, n2 or without source node, with a
\* total of 100 or 300 ms or without total.
NodePairProbes == {<<>>, <<Tok("total", Dec(100))>>, <<Tok("total", Dec(300))>>}

NodePairLines ==
    {ProbeRow(pod, "cart", node, probe) :
        pod \in {"web-1", "web-2"}, node \in {"n1", "n2"}, probe \in NodePairProbes}
    \cup
    {[kind |-> "object", row |-> [source_pod |-> pod, target_service |-> "cart", probe |-> probe]] :
        pod \in {"web-1", "web-2"}, probe \in NodePairProbes}

ReadNodePairLine == \E line \in NodePairLines : ReadLine(line)

NextNodePairs == ReadNodePairLine \/ SummarizeS2S

SpecNodePairs == InitS2S /\ [][NextNodePairs]_vars

----------------------------------------------------------------------------
(* Graph generator: load_s2s_data, plot_cross_node_ratio,                  *)
(* plot_same_vs_cross_node_cdf (06-generate-graphs.py)                     *)

\* Lines 452-462 of the graph generator: float first, int only when float fails.
RECURSIVE ParseTokensInline(_, _)
ParseTokensInline(out, tokens) ==
    IF tokens = <<>> THEN out
    ELSE LET token == Head(tokens)
             asf   == IF token.eq THEN FloatTimes1000(token.v) ELSE <<FALSE, 0>>
             conv  == IF ~token.eq THEN <<FALSE, 0>>
                      ELSE IF asf[1] THEN asf ELSE IntOf(token.v)
         IN  IF conv[1] THEN ParseTokensInline(Put(out, token.k, conv[2]), Tail(tokens))
             ELSE ParseTokensInline(out, Tail(tokens))

\* Lines 463-469: the record of one row; the metrics are merged last.
RecordOf(row) ==
    LET metrics == ParseTokensInline(<<>>, Get(row, "probe", <<>>))
        base    == [timestamp      |-> Get(row, "timestamp", ""),
                    source_pod     |-> Get(row, "source_pod", <<"unknown">>),
                    source_node    |-> Get(row, "source_node", "unknown"),
                    target_service |-> Get(row, "target_service", "unknown")]
    IN  [k \in DOMAIN base \cup DOMAIN metrics |->
            IF k \in DOMAIN metrics THEN metrics[k] ELSE base[k]]

\* Lines 443-470: the records of the lines that are JSON objects.
RECURSIVE RecordsOf(_)
RecordsOf(ls) ==
    IF ls = <<>> THEN <<>>
    ELSE (IF Skipped(Head(ls)) THEN <<>> ELSE <<RecordOf(Head(ls).row)>>)
         \o RecordsOf(Tail(ls))

\* Lines 522-524. A pod name is the sequence of its dash-separated tokens;
\* rsplit("-", 2) cuts off at most the last two.
pod_to_app(pod_name) ==
    LET n == Len(pod_name)
    IN  IF n >= 3 THEN SubSeq(pod_name, 1, n - 2)
        ELSE IF n = 2 THEN SubSeq(pod_name, 1, 1)
        ELSE pod_name

\* Lines 528-535: pair_counts after one record.
CountPair(counts, rec, s2n) ==
    LET source_node    == Get(rec, "source_node", "unknown")
        target_service == Get(rec, "target_service", "unknown")
        pair           == <<pod_to_app(Get(rec, "source_pod", <<"unknown">>)), target_service>>
        target_nodes   == Get(s2n, target_service, {})
        old            == Get(counts, pair, [total |-> 0, cross |-> 0])
    IN  Put(counts, pair,
            [total |-> old.total + 1,
             cross |-> IF source_node \notin target_nodes THEN old.cross + 1 ELSE old.cross])

\* Lines 526-535.
RECURSIVE PairCounts(_, _, _)
PairCounts(counts, recs, s2n) ==
    IF recs = <<>> THEN counts
    ELSE PairCounts(CountPair(counts, Head(recs), s2n), Tail(recs), s2n)

\* The ratio without the max(total, 1) guard.
CrossNodeRatioUnguarded(c) == Rat(c.cross * Hundred, c.total)

\* Line 542: cross / max(total, 1) * 100, the ratio in percent.
CrossNodeRatio(c) == Rat(c.cross * Hundred, IF c.total >= 1 THEN c.total ELSE 1)

\* Lines 572-584: the pool ("same", "cross" or "none") one record's total joins.
CdfClass(rec, s2n) ==
    LET source_node  == Get(rec, "source_node", "unknown")
        target_nodes == Get(s2n, Get(rec, "target_service", ""), {})
    IN  IF "total" \notin DOMAIN rec THEN "none"
        ELSE IF source_node = "unknown" \/ target_nodes = {} THEN "none"
        ELSE IF source_node \in target_nodes THEN "same"
        ELSE "cross"

\* Lines 572-584: the totals of the records of one class, in record order.
RECURSIVE CdfPool(_, _, _)
CdfPool(class, recs, s2n) ==
    IF recs = <<>> THEN <<>>
    ELSE (IF CdfClass(Head(recs), s2n) = class THEN <<Head(recs)["total"]>> ELSE <<>>)
         \o CdfPool(class, Tail(recs), s2n)

\* load_s2s_data over the whole probe file; a line that is JSON but no object
\* raises at row.get (line 453).
LoadS2SData ==
    /\ pc = "summarized"
    /\ IF \E i \in 1..Len(lines) : Raises(lines[i])
       THEN pc' = "raised" /\ UNCHANGED s2s_records
       ELSE pc' = "loaded" /\ s2s_records' = RecordsOf(lines)
    /\ UNCHANGED <<pair_counts, same_node, cross_node, graph_nodes, heat_p95, statVars,
                   placeVars, s2sVars,
                   replicaVars, endpoint_files, callVars, e2eVars>>

\* plot_cross_node_ratio, lines 516-542 (without the drawing).
PlotCrossNodeRatio ==
    /\ pc = "loaded"
    /\ pair_counts' = IF s2s_records = <<>> THEN pair_counts
                      ELSE PairCounts(<<>>, s2s_records, service_to_nodes)
    /\ pc' = "ratio"
    /\ UNCHANGED <<s2s_records, same_node, cross_node, graph_nodes, heat_p95, statVars,
                   placeVars, s2sVars,
                   replicaVars, endpoint_files, callVars, e2eVars>>

\* plot_same_vs_cross_node_cdf, lines 566-584 (without the drawing).
PlotSameVsCrossNodeCdf ==
    /\ pc = "ratio"
    /\ same_node' = CdfPool("same", s2s_records, service_to_nodes)
    /\ cross_node' = CdfPool("cross", s2s_records, service_to_nodes)
    /\ pc' = "cdf"
    /\ UNCHANGED <<s2s_records, pair_counts, graph_nodes, heat_p95, statVars, placeVars, s2sVars,
                   replicaVars, endpoint_files, callVars, e2eVars>>

\* Endpoint maps of the locality runs: cart is hosted on n1; db has no known
\* node set, being absent from the map or mapped to the empty set.
LocalityMaps ==
    {[svc \in {"cart"} |-> {"n1"}],
     [svc \in {"cart", "db"} |-> IF svc = "cart" THEN {"n1"} ELSE {}]}

InitLocality ==
    /\ pc = "read"
    /\ StatIdle
    /\ PlaceIdle
    /\ p_exists = TRUE
    /\ lines = <<>>
    /\ service_to_nodes \in LocalityMaps
    /\ path_stats = <<>>
    /\ node_pair_totals = <<>>
    /\ same_node_total = 0
    /\ all_total = 0
    /\ s2s = None
    /\ GraphIdle
    /\ ReplicaIdle
    /\ EndpointIdle
    /\ CallIdle
    /\ E2EIdle

WebPod == <<"web", "7d9f", "x2k">>

\* Probes of one pod to cart and db, from n1, n2 or without a source node,
\* with or without a total.
LocalityLines ==
    {[kind |-> "object",
      row  |-> [source_pod |-> WebPod, target_service |-> svc, probe |-> probe]]
        : svc \in {"cart", "db"}, probe \in {<<>>, <<Tok("total", Dec(100))>>}}
    \cup
    {ProbeRow(WebPod, svc, node, probe)
        : svc \in {"cart", "db"}, node \in {"n1", "n2"},
          probe \in {<<>>, <<Tok("total", Dec(100))>>}}

ReadLocalityLine == \E line \in LocalityLines : ReadLine(line)

NextLocality ==
    \/ ReadLocalityLine
    \/ SummarizeS2S
    \/ LoadS2SData
    \/ PlotCrossNodeRatio
    \/ PlotSameVsCrossNodeCdf

SpecLocality == InitLocality /\ [][NextLocality]_vars

----------------------------------------------------------------------------
(* plot_node_pair_heatmap (06-generate-graphs.py, lines 662-691)           *)

MaxTotals == 21

NinetyFive == 95

\* Lines 671-677: pair_latencies, the totals per (source node, service) of
\* the records with a total and a source node other than "unknown".
RECURSIVE PairLatencies(_, _)
PairLatencies(acc, recs) ==
    IF recs = <<>> THEN acc
    ELSE LET rec  == Head(recs)
             sn   == Get(rec, "source_node", "unknown")
             pair == <<sn, Get(rec, "target_service", "unknown")>>
         IN  IF "total" \in DOMAIN rec /\ sn # "unknown"
             THEN PairLatencies(Put(acc, pair, Append(Get(acc, pair, <<>>), rec["total"])),
                                Tail(recs))
             ELSE PairLatencies(acc, Tail(recs))

\* The element at index floor(0.95 * (n - 1)), the lower neighbour.
HeatCellLowerRank(vals) ==
    sorted(vals)[(((Len(vals) - 1) * NinetyFive) \div Hundred) + 1]

\* Lines 689-691: vals[min(int(len(vals) * 0.95), len(vals) - 1)] of the sorted
\* totals (sequences are 1-based).
HeatCell(vals) ==
    LET n    == Len(vals)
        rank == (n * NinetyFive) \div Hundred
    IN  sorted(vals)[(IF rank <= n - 1 THEN rank ELSE n - 1) + 1]

\* plot_node_pair_heatmap, lines 662-691 (without the drawing).
PlotNodePairHeatmap ==
    /\ pc = "loaded"
    /\ heat_p95' = IF s2s_records = <<>> THEN heat_p95
                   ELSE LET pair_latencies == PairLatencies(<<>>, s2s_records)
                        IN  [pair \in DOMAIN pair_latencies |-> HeatCell(pair_latencies[pair])]
    /\ pc' = "heat"
    /\ UNCHANGED <<s2s_records, pair_counts, same_node, cross_node, graph_nodes, statVars,
                   placeVars, s2sVars, replicaVars, endpoint_files, callVars, e2eVars>>

\* A probe from web-1 on n1 to cart with a total of ms milliseconds.
HeatLine(ms) == ProbeRow("web-1", "cart", "n1", <<Tok("total", Dec(ms))>>)

\* Probe files of up to MaxTotals probes from n1 to cart: high lines with a
\* total of 300 ms, then lines of 200 ms up to line mid, then lines of 100 ms.
HeatFile(n, high, mid) ==
    [i \in 1..n |-> HeatLine(IF i <= high THEN 300 ELSE IF i <= mid THEN 200 ELSE 100)]

TotalOfLine(line) == line.row.probe[1].v.n

ReadHeatLine ==
    \E ms \in {100, 200, 300} :
        /\ IF lines = <<>> THEN TRUE ELSE ms <= TotalOfLine(lines[Len(lines)])
        /\ ReadLineWithin(HeatLine(ms), MaxTotals)

NextHeat == ReadHeatLine \/ SummarizeS2S \/ LoadS2SData \/ PlotNodePairHeatmap

SpecHeat == InitS2S /\ [][NextHeat]_vars

----------------------------------------------------------------------------
(* load_hpa_snapshots and build_latency_vs_replicas (lines 374-467)        *)

\* An item of an hpa-*.json payload; name "" stands for an item without
\* metadata.name. The status always carries both replica counts here.
HpaItem(name, desired, current) == [name |-> name, desired |-> desired, current |-> current]

\* Lines 384-393: per_hpa of one payload.
RECURSIVE PerHpa(_, _)
PerHpa(out, items) ==
    IF items = <<>> THEN out
    ELSE LET item == Head(items)
         IN  IF item.name = "" THEN PerHpa(out, Tail(items))
             ELSE PerHpa(Put(out, item.name,
                             [desired |-> Some(item.desired), current |-> Some(item.current)]),
                         Tail(items))

\* An hpa-*.json file: ts is Some(t) when the file name carries a digit
\* timestamp and None otherwise; items is the payload's item list, <<>> also
\* for a payload that is unparseable or empty.
HpaFile(ts, items) == [ts |-> ts, items |-> items]

\* Lines 374-396, over the files in name order.
RECURSIVE load_hpa_snapshots(_)
load_hpa_snapshots(files) ==
    IF files = <<>> THEN <<>>
    ELSE LET file    == Head(files)
             per_hpa == PerHpa(<<>>, file.items)
         IN  (IF file.items = <<>> \/ file.ts = None \/ per_hpa = <<>> THEN <<>>
              ELSE <<<<file.ts[1], per_hpa>>>>)
             \o load_hpa_snapshots(Tail(files))

\* Lines 410-423: by_ts after the lines ls.
RECURSIVE GroupByTs(_, _)
GroupByTs(acc, ls) ==
    IF ls = <<>> THEN acc
    ELSE LET line    == Head(ls)
             metrics == parse_probe_kv(Get(line.row, "probe", <<>>))
         IN  IF Skipped(line) \/ "timestamp" \notin DOMAIN line.row
                \/ "total" \notin DOMAIN metrics
             THEN GroupByTs(acc, Tail(ls))
             ELSE GroupByTs(Put(acc, line.row.timestamp,
                                Append(Get(acc, line.row.timestamp, <<>>), metrics["total"])),
                            Tail(ls))

\* Lines 426-429.
AllHpaNames(snaps) == UNION {DOMAIN snaps[i][2] : i \in 1..Len(snaps)}

\* The totals of the nearest timestamp at or before ts that has any.
TotalsAtOrBefore(byts, ts) ==
    LET earlier == {t \in DOMAIN byts : t <= ts}
    IN  IF earlier = {} THEN <<>> ELSE sorted(byts[MaxOf(earlier)])

\* Lines 435 and 452: sorted(by_ts.get(ts, [])).
TotalsAt(byts, ts) == sorted(Get(byts, ts, <<>>))

\* f"{x:.2f}" of a percentile, "" (None) when there is none.
FormatMs(x) == IF x = None THEN None ELSE Some(Round2(x[1]))

\* Lines 434-445: the row of an autoscaler snapshot. The columns
\* "<name>_desired" and "<name>_current" are the record replicas[name];
\* "" is None.
HpaRow(ts, per_hpa, names, byts) ==
    LET totals_at_ts == TotalsAt(byts, ts)
    IN  [timestamp  |-> ts,
         replicas   |-> [name \in names |->
                            LET info == Get(per_hpa, name, <<>>)
                            IN  [desired |-> Get(info, "desired", None),
                                 current |-> Get(info, "current", None)]],
         s2s_p95_ms |-> FormatMs(percentile(totals_at_ts, 95)),
         s2s_p99_ms |-> FormatMs(percentile(totals_at_ts, 99))]

\* Lines 452-459: the row of a timestamp that has probes and no snapshot.
ProbeOnlyRow(ts, names, byts) ==
    LET totals_at_ts == TotalsAt(byts, ts)
    IN  [timestamp  |-> ts,
         replicas   |-> [name \in names |-> [desired |-> None, current |-> None]],
         s2s_p95_ms |-> FormatMs(percentile(totals_at_ts, 95)),
         s2s_p99_ms |-> FormatMs(percentile(totals_at_ts, 99))]

RowLe(a, b) == a.timestamp <= b.timestamp

\* The elements of a set of timestamps in ascending order.
RECURSIVE AscendingSeq(_)
AscendingSeq(S) ==
    IF S = {} THEN <<>> ELSE <<MinOf(S)>> \o AscendingSeq(S \ {MinOf(S)})

\* Lines 432-460. The rows of the timestamps without snapshot are appended in
\* ascending instead of insertion order; the sort of line 460 follows.
LatencyVsReplicasRows(snaps, byts) ==
    LET names      == AllHpaNames(snaps)
        hpa_rows   == [i \in 1..Len(snaps) |-> HpaRow(snaps[i][1], snaps[i][2], names, byts)]
        hpa_ts_set == {snaps[i][1] : i \in 1..Len(snaps)}
        rest       == AscendingSeq(DOMAIN byts \ hpa_ts_set)
        rest_rows  == [i \in 1..Len(rest) |-> ProbeOnlyRow(rest[i], names, byts)]
    IN  SortSeq(hpa_rows \o rest_rows, RowLe)

WebHpa == HpaItem("web", 2, 1)

DbHpa == HpaItem("db", 3, 3)

\* The hpa files of a run, in name order: timestamps 1 and 2, each absent, with
\* items or with none, and possibly a file whose name carries no timestamp.
HpaFileLists ==
    {first \o second \o other :
        first  \in {<<>>, <<HpaFile(Some(1), <<WebHpa>>)>>, <<HpaFile(Some(1), <<>>)>>},
        second \in {<<>>, <<HpaFile(Some(2), <<WebHpa, DbHpa>>)>>,
                    <<HpaFile(Some(2), <<HpaItem("", 1, 1)>>)>>},
        other  \in {<<>>, <<HpaFile(None, <<WebHpa>>)>>}}

\* main, line 681.
LoadHpaSnapshots ==
    /\ pc = "summarized"
    /\ \E files \in HpaFileLists : hpa_snapshots' = load_hpa_snapshots(files)
    /\ pc' = "hpa"
    /\ UNCHANGED <<by_ts, rows, statVars, placeVars, s2sVars, graphVars, endpoint_files,
                   callVars, e2eVars>>

\* build_latency_vs_replicas, lines 399-467; rows = None is the None returned
\* at line 406.
BuildLatencyVsReplicas ==
    /\ pc = "hpa"
    /\ IF hpa_snapshots = <<>>
       THEN UNCHANGED <<by_ts, rows>>
       ELSE /\ by_ts' = GroupByTs(<<>>, lines)
            /\ rows' = Some(LatencyVsReplicasRows(hpa_snapshots, GroupByTs(<<>>, lines)))
    /\ pc' = "built"
    /\ UNCHANGED <<hpa_snapshots, statVars, placeVars, s2sVars, graphVars, endpoint_files,
                   callVars, e2eVars>>

\* Probes at timestamps 1 and 3 or without timestamp, with a total of 100 or
\* 200 ms or without total.
ReplicaLines ==
    {[kind |-> "object",
      row  |-> [timestamp |-> ts, source_pod |-> "web-1", target_service |-> "cart",
                source_node |-> "n1", probe |-> probe]]
        : ts \in {1, 3}, probe \in {<<>>, <<Tok("total", Dec(100))>>, <<Tok("total", Dec(200))>>}}
    \cup {ProbeRow("web-1", "cart", "n1", <<Tok("total", Dec(200))>>)}

ReadReplicaLine == \E line \in ReplicaLines : ReadLine(line)

NextReplicas ==
    \/ ReadReplicaLine
    \/ SummarizeS2S
    \/ LoadHpaSnapshots
    \/ BuildLatencyVsReplicas

SpecReplicas == InitS2S /\ [][NextReplicas]_vars

----------------------------------------------------------------------------
(* load_service_endpoint_nodes of the analyzer (lines 78-91) and of the      *)
(* graph generator (06-generate-graphs.py, lines 473-490)                     *)

MaxFiles == 3

\* An item of an endpoints payload: the item has no name key when
\* metadata.name is missing; nodes lists the nodeName of every address of
\* every subset in order, "" for an address without nodeName.
NamedEndpoints(name, nodes) == [name |-> name, nodes |-> nodes]

UnnamedEndpoints(nodes) == [nodes |-> nodes]

\* A service-endpoints-*.json file. Its kind is "invalid" (not JSON), "empty"
\* (the object {}), "null" (a falsy JSON value that is no object: null, [], 0),
\* "value" (a truthy JSON value that is no object: [1], 5) or "object", with
\* its items.
EndpointFile(items) == [kind |-> "object", items |-> items]

InvalidFile == [kind |-> "invalid"]

EmptyFile == [kind |-> "empty"]

NullFile == [kind |-> "null"]

ValueFile == [kind |-> "value"]

\* The set of a service replaced by the node instead of extended by it.
EndpointAssign(s2n, svc, node) == Put(s2n, svc, {node})

\* Lines 88-89: service_to_nodes[service_name].add(node_name), if node_name.
EndpointAdd(s2n, svc, node) ==
    IF node = "" THEN s2n ELSE Put(s2n, svc, Get(s2n, svc, {}) \cup {node})

\* Lines 86-89: the addresses of one item.
RECURSIVE AddNodes(_, _, _)
AddNodes(s2n, svc, nodes) ==
    IF nodes = <<>> THEN s2n
    ELSE AddNodes(EndpointAdd(s2n, svc, Head(nodes)), svc, Tail(nodes))

\* Lines 84-89: the items of one payload.
RECURSIVE AddItems(_, _)
AddItems(s2n, items) ==
    IF items = <<>> THEN s2n
    ELSE AddItems(AddNodes(s2n, Get(Head(items), "name", "unknown"), Head(items).nodes),
                  Tail(items))

\* Lines 81-83 of the analyzer: load_json gives None for a file that is not
\* JSON, and every falsy payload is skipped.
SkippedFile(file) == file.kind \in {"invalid", "empty", "null"}

\* Line 84 of the analyzer: payload.get on a payload that is no object.
RaisesFile(file) == file.kind = "value"

\* One iteration of the loop of lines 80-89.
ReadEndpointFile(file) ==
    /\ pc = "endpoints"
    /\ Len(endpoint_files) < MaxFiles
    /\ endpoint_files' = Append(endpoint_files, file)
    /\ IF SkippedFile(file) THEN UNCHANGED <<pc, service_to_nodes>>
       ELSE IF RaisesFile(file) THEN pc' = "raised" /\ UNCHANGED service_to_nodes
       ELSE service_to_nodes' = AddItems(service_to_nodes, file.items) /\ UNCHANGED pc
    /\ UNCHANGED <<p_exists, lines, path_stats, node_pair_totals, same_node_total,
                   all_total, s2s, statVars, placeVars, graphVars, replicaVars,
                   callVars, e2eVars>>

\* Line 90: return service_to_nodes.
ReturnEndpointNodes ==
    /\ pc = "endpoints"
    /\ pc' = "endpoints_loaded"
    /\ UNCHANGED <<statVars, placeVars, s2sVars, graphVars, replicaVars, endpoint_files,
                   callVars, e2eVars>>

\* Lines 477-489 of the graph generator: only a file that is not JSON is
\* skipped; payload.get raises on every payload that is no object.
RECURSIVE GraphEndpointNodes(_, _)
GraphEndpointNodes(s2n, files) ==
    IF files = <<>> THEN s2n
    ELSE IF Head(files).kind \in {"invalid", "empty"} THEN GraphEndpointNodes(s2n, Tail(files))
    ELSE GraphEndpointNodes(AddItems(s2n, Head(files).items), Tail(files))

\* load_service_endpoint_nodes of the graph generator over the same files.
GraphLoadEndpointNodes ==
    /\ pc = "endpoints_loaded"
    /\ IF \E i \in 1..Len(endpoint_files) : endpoint_files[i].kind \in {"null", "value"}
       THEN pc' = "raised" /\ UNCHANGED graph_nodes
       ELSE pc' = "graph_endpoints" /\ graph_nodes' = GraphEndpointNodes(<<>>, endpoint_files)
    /\ UNCHANGED <<s2s_records, pair_counts, same_node, cross_node, heat_p95, statVars, placeVars,
                   s2sVars, replicaVars, endpoint_files, callVars, e2eVars>>

InitEndpoints ==
    /\ pc = "endpoints"
    /\ StatIdle
    /\ PlaceIdle
    /\ S2SIdle
    /\ GraphIdle
    /\ ReplicaIdle
    /\ EndpointIdle
    /\ CallIdle
    /\ E2EIdle

\* Endpoint files: cart on n1; cart on n2 and db on n1; cart on n1 with an
\* address without node and an unnamed item on n2; and the files without
\* usable payload.
EndpointFiles ==
    {EndpointFile(<<NamedEndpoints("cart", <<"n1">>)>>),
     EndpointFile(<<NamedEndpoints("cart", <<"n2">>), NamedEndpoints("db", <<"n1">>)>>),
     EndpointFile(<<NamedEndpoints("cart", <<"n1", "">>), UnnamedEndpoints(<<"n2">>)>>),
     InvalidFile, EmptyFile, NullFile, ValueFile}

ReadAnyEndpointFile == \E file \in EndpointFiles : ReadEndpointFile(file)

NextEndpoints ==
    \/ ReadAnyEndpointFile
    \/ ReturnEndpointNodes
    \/ GraphLoadEndpointNodes

SpecEndpoints == InitEndpoints /\ [][NextEndpoints]_vars

----------------------------------------------------------------------------
(* The two probe parsers applied to one probe string                       *)

MaxTokens == 3

\* The tokens of a probe string: a word without "=", or total / code with a
\* decimal, an integer or an unparseable value.
ProbeTokens ==
    {Word} \cup {Tok(k, v) : k \in {"total", "code"},
                            v \in {Dec(100), Whole(200), Whole(404), NaN}}

ProbeStrings == UNION {[1..n -> ProbeTokens] : n \in 0..MaxTokens}

InitParse ==
    /\ pc = "idle"
    /\ StatIdle
    /\ PlaceIdle
    /\ S2SIdle
    /\ GraphIdle
    /\ ReplicaIdle
    /\ EndpointIdle
    /\ raw_probe \in ProbeStrings
    /\ kv = <<>>
    /\ kv_inline = <<>>
    /\ arg_pod = <<>>
    /\ ret_app = <<>>
    /\ E2EIdle

\* metrics = parse_probe_kv(row.get("probe", "")), analyzer line 298.
CallParseProbeKv ==
    /\ pc = "idle"
    /\ kv' = parse_probe_kv(raw_probe)
    /\ pc' = "parsed"
    /\ UNCHANGED <<raw_probe, kv_inline, arg_pod, ret_app, statVars, placeVars, s2sVars,
                   graphVars, replicaVars, endpoint_files, e2eVars>>

\* The inline parser of load_s2s_data, graph generator lines 452-462.
InlineParse ==
    /\ pc = "parsed"
    /\ kv_inline' = ParseTokensInline(<<>>, raw_probe)
    /\ pc' = "inline_parsed"
    /\ UNCHANGED <<raw_probe, kv, arg_pod, ret_app, statVars, placeVars, s2sVars,
                   graphVars, replicaVars, endpoint_files, e2eVars>>

NextParse == CallParseProbeKv \/ InlineParse

SpecParse == InitParse /\ [][NextParse]_vars

----------------------------------------------------------------------------
(* load_e2e_latency (lines 199-254) and, in the graph generator,           *)
(* load_burst_data and plot_latency_percentiles (lines 25-64, 201-224)     *)

MaxBursts == 3

\* The names fortio-burst-<idx>-<endpoint>.json of a load directory in sorted
\* order; idx None is an index token that is not a number.
BurstNames ==
    <<[idx |-> Some(0), endpoint |-> "cart"], [idx |-> Some(0), endpoint |-> "home"],
      [idx |-> Some(1), endpoint |-> "cart"], [idx |-> Some(1), endpoint |-> "home"],
      [idx |-> None, endpoint |-> "cart"]>>

\* A burst file: its name (a position in BurstNames) and either a payload
\* with ActualQPS and no DurationHistogram, or text that is not JSON.
BurstFile(name, actual_qps) == [name |-> name, kind |-> "object", actual_qps |-> actual_qps]

BadBurstFile(name) == [name |-> name, kind |-> "invalid"]

BurstFileSet ==
    {BurstFile(name, actual_qps) : name \in DOMAIN BurstNames, actual_qps \in {10, 30}}
    \cup {BadBurstFile(name) : name \in DOMAIN BurstNames}

\* Lines 225-228 with the mean of the burst's QPS in place of their sum.
BurstQpsAveraged(totals, file) ==
    LET idx == BurstNames[file.name].idx
    IN  IF idx = None THEN totals
        ELSE Put(totals, idx[1], (Get(totals, idx[1], 0) + file.actual_qps) \div 2)

\* Lines 224-228: per_burst_total_qps after one file with a payload.
BurstQpsAfter(totals, file) ==
    LET idx == BurstNames[file.name].idx
    IN  IF idx = None THEN totals
        ELSE Put(totals, idx[1], Get(totals, idx[1], 0) + file.actual_qps)

\* One iteration of the loop of lines 203-228.
ReadBurstFile(file) ==
    /\ pc = "e2e"
    /\ Len(burst_files) < MaxBursts
    /\ IF burst_files = <<>> THEN TRUE ELSE burst_files[Len(burst_files)].name < file.name
    /\ burst_files' = Append(burst_files, file)
    /\ per_burst_total_qps' = IF file.kind = "invalid" THEN per_burst_total_qps
                              ELSE BurstQpsAfter(per_burst_total_qps, file)
    /\ UNCHANGED <<pc, e2e, mean_qps, statVars, placeVars, s2sVars, graphVars, replicaVars,
                   endpoint_files, callVars>>

\* The values of a mapping with integer keys, in ascending order.
ValuesSorted(m) ==
    LET keys == AscendingSeq(DOMAIN m)
    IN  sorted([i \in 1..Len(keys) |-> m[keys[i]]])

\* The actual_qps of the records of one endpoint, in file order.
RECURSIVE EndpointQps(_, _)
EndpointQps(endpoint, files) ==
    IF files = <<>> THEN <<>>
    ELSE (IF Head(files).kind = "object" /\ BurstNames[Head(files).name].endpoint = endpoint
          THEN <<Head(files).actual_qps>> ELSE <<>>)
         \o EndpointQps(endpoint, Tail(files))

\* Lines 230-243; the files carry no percentile, so the four latency fields
\* are None.
EndpointSummary(files) ==
    LET endpoints == {BurstNames[files[i].name].endpoint :
                         i \in {j \in 1..Len(files) : files[j].kind = "object"}}
    IN  [endpoint \in endpoints |->
            LET qs == EndpointQps(endpoint, files)
            IN  [runs |-> Len(qs),
                 avg_actual_qps |-> safe_mean(qs),
                 max_actual_qps |-> Some(MaxOf({qs[i] : i \in 1..Len(qs)})),
                 p95_ms_median |-> None, p95_ms_max |-> None,
                 p99_ms_median |-> None, p99_ms_max |-> None]]

\* Lines 245-251.
ClusterSummary(totals) ==
    LET burst_qps == ValuesSorted(totals)
    IN  [burst_count             |-> Cardinality(DOMAIN totals),
         combined_actual_qps_avg |-> safe_mean(burst_qps),
         combined_actual_qps_p95 |-> percentile(burst_qps, 95),
         combined_actual_qps_max |-> IF burst_qps = <<>> THEN None
                                     ELSE Some(burst_qps[Len(burst_qps)])]

\* Lines 230-254, once every file is read.
SummarizeE2E ==
    /\ pc = "e2e"
    /\ e2e' = Some([endpoint_summary |-> EndpointSummary(burst_files),
                    cluster_summary  |-> ClusterSummary(per_burst_total_qps)])
    /\ pc' = "e2e_done"
    /\ UNCHANGED <<burst_files, per_burst_total_qps, mean_qps, statVars, placeVars, s2sVars,
                   graphVars, replicaVars, endpoint_files, callVars>>

\* load_burst_data, lines 33-62: (index, actual_qps) of every file; a file
\* whose index token is no number gets the count of the bursts before it.
RECURSIVE Bursts(_, _)
Bursts(done, files) ==
    IF files = <<>> THEN done
    ELSE LET idx == BurstNames[Head(files).name].idx
             burst_index == IF idx = None THEN Len(done) ELSE idx[1]
         IN  Bursts(Append(done, [index |-> burst_index, actual_qps |-> Head(files).actual_qps]),
                    Tail(files))

\* Lines 206-220: np.mean of the actual_qps of the bursts of each index.
MeanQps(bursts) ==
    [i \in {bursts[j].index : j \in 1..Len(bursts)} |->
        LET of_i == SelectSeq(bursts, LAMBDA b : b.index = i)
        IN  Rat(SumSeq([j \in 1..Len(of_i) |-> of_i[j].actual_qps]), Len(of_i))]

\* The graph generator over the same files: json.load raises on a file that
\* is not JSON (line 35), main exits without bursts (lines 822-824), and
\* plot_latency_percentiles computes the QPS of each burst index.
PlotLatencyPercentiles ==
    /\ pc = "e2e_done"
    /\ IF \E i \in 1..Len(burst_files) : burst_files[i].kind = "invalid"
       THEN pc' = "raised" /\ UNCHANGED mean_qps
       ELSE IF burst_files = <<>>
       THEN pc' = "exit" /\ UNCHANGED mean_qps
       ELSE pc' = "plotted" /\ mean_qps' = MeanQps(Bursts(<<>>, burst_files))
    /\ UNCHANGED <<burst_files, per_burst_total_qps, e2e, statVars, placeVars, s2sVars,
                   graphVars, replicaVars, endpoint_files, callVars>>

InitE2E ==
    /\ pc = "e2e"
    /\ StatIdle
    /\ PlaceIdle
    /\ S2SIdle
    /\ GraphIdle
    /\ ReplicaIdle
    /\ EndpointIdle
    /\ CallIdle
    /\ E2EIdle

ReadAnyBurstFile == \E file \in BurstFileSet : ReadBurstFile(file)

NextE2E == ReadAnyBurstFile \/ SummarizeE2E \/ PlotLatencyPercentiles

SpecE2E == InitE2E /\ [][NextE2E]_vars

----------------------------------------------------------------------------
(* pod_to_app applied to one pod name                                      *)

MaxPodTokens == 4

\* Pod names of one to MaxPodTokens dash-separated tokens; "" is the empty
\* token of a leading, trailing or doubled dash.
PodNameArgs == UNION {[1..n -> {"web", "7d9f", ""}] : n \in 1..MaxPodTokens}

InitPodApp ==
    /\ pc = "idle"
    /\ StatIdle
    /\ PlaceIdle
    /\ S2SIdle
    /\ GraphIdle
    /\ ReplicaIdle
    /\ EndpointIdle
    /\ raw_probe = <<>>
    /\ kv = <<>>
    /\ kv_inline = <<>>
    /\ arg_pod \in PodNameArgs
    /\ ret_app = <<>>
    /\ E2EIdle

\* source_app = pod_to_app(rec.get("source_pod", "unknown")), line 531.
CallPodToApp ==
    /\ pc = "idle"
    /\ ret_app' = pod_to_app(arg_pod)
    /\ pc' = "app"
    /\ UNCHANGED <<raw_probe, kv, kv_inline, arg_pod, statVars, placeVars, s2sVars,
                   graphVars, replicaVars, endpoint_files, e2eVars>>

NextPodApp == CallPodToApp

SpecPodApp == InitPodApp /\ [][NextPodApp]_vars

----------------------------------------------------------------------------
(* Claims about percentile and safe_mean, checked under SpecStat *)

\* C1: for every ascending list of at least two values and every q in 0..100,
\* percentile(values, q) is values[lo] when lo = hi and otherwise
\* values[lo]*(1-frac) + values[hi]*frac, where pos = (n-1)*q/100, lo = floor(pos),
\* hi = ceil(pos), frac = pos - lo; percentile([1,2,3,4], 50) is 2.5.
\* lo and hi are characterised by their defining inequalities, frac by 100*frac.
C1_Interpolation ==
    (pc = "percentile" /\ Len(values) >= 2 /\ IsSorted(values)) =>
        LET n   == Len(values)
            x   == (n - 1) * q
            lo  == CHOOSE i \in 0..(n - 1) : 100 * i <= x /\ x < 100 * (i + 1)
            hi  == CHOOSE j \in 0..(n - 1) : 100 * (j - 1) < x /\ x <= 100 * j
            f   == x - 100 * lo
        IN  /\ ret # None
            /\ IF lo = hi
               THEN RatEq(ret[1], Rat(values[lo + 1], 1))
               ELSE RatEq(ret[1],
                          Rat(values[lo + 1] * (100 - f) + values[hi + 1] * f, 100))
            /\ (values = <<1, 2, 3, 4>> /\ q = 50) => RatEq(ret[1], Rat(5, 2))

C1_Witness ==
    /\ pc = "percentile"
    /\ values = <<1, 2, 3, 4>>
    /\ q = 50
    /\ ret = Some(Rat(250, 100))

\* C2: for every non-empty ascending sample, percentile(v, 0) is min(v) and
\* percentile(v, 100) is max(v).
C2_MinMax ==
    (pc = "percentile" /\ values # <<>> /\ IsSorted(values)) =>
        LET lows  == {values[i] : i \in 1..Len(values)}
            least == CHOOSE m \in lows : \A o \in lows : m <= o
            most  == CHOOSE m \in lows : \A o \in lows : o <= m
        IN  /\ q = 0 => (ret # None /\ RatEq(ret[1], Rat(least, 1)))
            /\ q = 100 => (ret # None /\ RatEq(ret[1], Rat(most, 1)))

C2_Witness ==
    /\ pc = "percentile"
    /\ values = <<1, 2, 4>>
    /\ q = 100
    /\ ret = Some(Rat(4, 1))

\* C3: percentile of an empty list is None for every q, percentile of a
\* one-element list is that element for every q, and safe_mean of an empty list
\* is None; each call returns (pc leaves "idle" only with a return value set).
C3_EmptyAndSingle ==
    /\ (pc = "percentile" /\ values = <<>>) => ret = None
    /\ (pc = "percentile" /\ Len(values) = 1) => ret = Some(Rat(values[1], 1))
    /\ (pc = "safe_mean" /\ values = <<>>) => ret = None
    /\ (pc = "safe_mean" /\ values # <<>>) => ret # None

C3_Witness ==
    /\ pc = "percentile"
    /\ values = <<>>
    /\ q = 95
    /\ ret = None

----------------------------------------------------------------------------
(* Claims about summarize_pod_placement, checked under SpecPlace *)

PodNames == {"p1", "p2", "unknown"}

Apps == {"web", "db", "unknown"}

RealNodes == {"A", "B"}

\* The node a snapshot records for a pod: its nodeName, "unknown" when missing.
ObservedNode(pod) == IF "nodeName" \in DOMAIN pod THEN pod.nodeName ELSE "unknown"

\* Every (timestamp, node) observation of a pod name, in the order supplied.
RECURSIVE ItemObservations(_, _, _)
ItemObservations(name, ts, items) ==
    IF items = <<>> THEN <<>>
    ELSE (IF Head(items).name = name THEN << <<ts, ObservedNode(Head(items))>> >> ELSE <<>>)
         \o ItemObservations(name, ts, Tail(items))

RECURSIVE Observations(_, _)
Observations(name, snaps) ==
    IF snaps = <<>> THEN <<>>
    ELSE ItemObservations(name, Head(snaps).timestamp, Head(snaps).items)
         \o Observations(name, Tail(snaps))

\* Pods of one snapshot with the given app label on the given node.
PodsOn(snap, svc, node) ==
    Cardinality({j \in 1..Len(snap.items) :
                    snap.items[j].app = svc /\ ObservedNode(snap.items[j]) = node})

\* C4: a pod name is in pod_movements if and only if its history over all
\* supplied snapshots holds at least two distinct node values, and its entry
\* then carries every (timestamp, node) observation of the pod in the order
\* the snapshots were supplied; a pod always seen on one node is not in it.
C4_Movements ==
    pc = "placed" =>
        \A name \in PodNames :
            LET obs   == Observations(name, pod_snapshots)
                nodes == {obs[i][2] : i \in 1..Len(obs)}
                moves == placement[1].pod_movements
            IN  /\ (name \in DOMAIN moves) <=> (Cardinality(nodes) >= 2)
                /\ name \in DOMAIN moves =>
                      [i \in 1..Len(moves[name]) |->
                          <<moves[name][i].timestamp, moves[name][i].node>>] = obs

\* p1 on A at t1 and on B at t2 is reported with both entries; p2 on A at both
\* timestamps is not reported.
C4_Witness ==
    /\ pc = "placed"
    /\ pod_snapshots =
          << [timestamp |-> 1, items |-> <<PodOn("p1", "web", "A"), PodOn("p2", "web", "A")>>],
             [timestamp |-> 2, items |-> <<PodOn("p1", "web", "B"), PodOn("p2", "web", "A")>>] >>
    /\ DOMAIN placement[1].pod_movements = {"p1"}
    /\ Len(placement[1].pod_movements["p1"]) = 2

\* The snapshots in which a service has pods on a node, and the pod counts there.
SnapsWith(svc, node) ==
    {i \in 1..Len(pod_snapshots) : PodsOn(pod_snapshots[i], svc, node) > 0}

CountsOf(svc, node) ==
    {PodsOn(pod_snapshots[i], svc, node) : i \in SnapsWith(svc, node)}

C6_LatestSpread ==
    (pc = "placed" /\ pod_snapshots # <<>>) =>
        LET stamps == {pod_snapshots[i].timestamp : i \in 1..Len(pod_snapshots)}
            top    == CHOOSE t \in stamps : \A o \in stamps : o <= t
            first  == CHOOSE i \in 1..Len(pod_snapshots) :
                         /\ pod_snapshots[i].timestamp = top
                         /\ \A j \in 1..(i - 1) : pod_snapshots[j].timestamp # top
            snap   == pod_snapshots[first]
            spread == placement[1].service_node_spread
            has(svc, node) == /\ svc \in DOMAIN spread
                              /\ node \in DOMAIN spread[svc].pod_count_by_node
        IN  /\ placement[1].latest_timestamp = Some(top)
            /\ DOMAIN spread \subseteq Apps
            /\ \A svc \in Apps :
                  /\ ~has(svc, "unknown")
                  /\ svc \in DOMAIN spread =>
                        DOMAIN spread[svc].pod_count_by_node \subseteq RealNodes
                  /\ \A node \in RealNodes :
                        IF PodsOn(snap, svc, node) = 0 THEN ~has(svc, node)
                        ELSE /\ has(svc, node)
                             /\ spread[svc].pod_count_by_node[node] = PodsOn(snap, svc, node)

\* The greatest timestamp is supplied first; its snapshot has two web pods on A
\* and the later-supplied older snapshot has an unscheduled pod.
C6_Witness ==
    /\ pc = "placed"
    /\ pod_snapshots =
          << [timestamp |-> 2, items |-> <<PodOn("p1", "web", "A"), PodOn("p2", "web", "A")>>],
             [timestamp |-> 1, items |-> <<Pod("p1", "web"), PodOn("p2", "db", "B")>>] >>
    /\ placement[1].latest_timestamp = Some(2)
    /\ placement[1].service_node_spread["web"].pod_count_by_node["A"] = 2

\* C7: with zero snapshots the call returns a summary with latest_timestamp
\* None, empty latest_node_to_pods, service_node_spread, service_node_spread_avg
\* and pod_movements, and snapshot_count 0.
C7_ZeroSnapshots ==
    (pc = "placed" /\ pod_snapshots = <<>>) =>
        /\ placement # None
        /\ placement[1].latest_timestamp = None
        /\ DOMAIN placement[1].latest_node_to_pods = {}
        /\ DOMAIN placement[1].service_node_spread = {}
        /\ DOMAIN placement[1].service_node_spread_avg = {}
        /\ DOMAIN placement[1].pod_movements = {}
        /\ placement[1].snapshot_count = 0

C7_Witness ==
    /\ pc = "placed"
    /\ pod_snapshots = <<>>
    /\ placement # None
    /\ placement[1].snapshot_count = 0

----------------------------------------------------------------------------
(* Claims about load_service_to_service, checked under SpecTiming / SpecCodes *)

\* The path of a line and the metrics its probe carries.
PathOf(line) == <<line.row.source_pod, line.row.target_service>>

Carried(line) == parse_probe_kv(line.row.probe)

\* ttfb - connect of every probe of the path that carries both, in read order.
RECURSIVE OwnQueueing(_, _)
OwnQueueing(path, ls) ==
    IF ls = <<>> THEN <<>>
    ELSE LET m == Carried(Head(ls))
         IN  (IF PathOf(Head(ls)) = path /\ "connect" \in DOMAIN m /\ "ttfb" \in DOMAIN m
              THEN <<m["ttfb"] - m["connect"]>> ELSE <<>>)
             \o OwnQueueing(path, Tail(ls))

\* C8: the queueing pool of a path holds exactly one value per probe of the
\* path that carries both connect and ttfb, the ttfb minus the connect of that
\* same probe; a probe with only one of the two contributes nothing and never
\* shifts the pairing of another probe.
C8_QueueingPairsOwnProbe ==
    pc = "summarized" =>
        \A path \in DOMAIN s2s[1].path_summary :
            LET own == OwnQueueing(path, lines)
            IN  /\ sorted(QueueingList(path_stats[path])) = sorted(own)
                /\ s2s[1].path_summary[path].queueing_avg_ms = safe_mean(own)

\* C9: a probe whose ttfb is smaller than its connect is left out of the
\* queueing pool, so the pool holds no negative value and queueing_avg_ms, when
\* not None, is a mean of non-negative values.
C9_NoNegativeQueueing ==
    pc = "summarized" =>
        \A path \in DOMAIN s2s[1].path_summary :
            LET pool == QueueingList(path_stats[path])
                avg  == s2s[1].path_summary[path].queueing_avg_ms
            IN  /\ \A i \in 1..Len(pool) : pool[i] >= 0
                /\ avg # None => avg[1][1] >= 0

\* The codes recorded by the probes of a path: the integer literals of their
\* code tokens, in read order.
RECURSIVE TokenCodes(_)
TokenCodes(tokens) ==
    IF tokens = <<>> THEN <<>>
    ELSE (IF Head(tokens).eq /\ Head(tokens).k = "code" /\ Head(tokens).v.form = "int"
          THEN <<Head(tokens).v.n>> ELSE <<>>) \o TokenCodes(Tail(tokens))

RECURSIVE RecordedCodes(_, _)
RecordedCodes(path, ls) ==
    IF ls = <<>> THEN <<>>
    ELSE (IF PathOf(Head(ls)) = path THEN TokenCodes(Head(ls).row.probe) ELSE <<>>)
         \o RecordedCodes(path, Tail(ls))

\* C10: for every path of path_summary, error_rate is the number of probes of
\* the path with a recorded code >= 400 over the number of its probes that
\* recorded a code, and is None (not 0) exactly when none recorded a code.
C10_ErrorRate ==
    pc = "summarized" =>
        \A path \in DOMAIN s2s[1].path_summary :
            LET codes  == RecordedCodes(path, lines)
                errors == Cardinality({i \in 1..Len(codes) : codes[i] >= 400})
                rate   == s2s[1].path_summary[path].error_rate
            IN  /\ (rate = None) <=> (codes = <<>>)
                /\ rate # None => RatEq(rate[1], Rat(errors, Len(codes)))

\* One path read a 399, a 400 and a probe without a code: the rate is 1/2.
C10_Witness ==
    /\ pc = "summarized"
    /\ <<"web-1", "cart">> \in DOMAIN s2s[1].path_summary
    /\ RecordedCodes(<<"web-1", "cart">>, lines) = <<399, 400>>
    /\ Len(lines) = 3
    /\ \A i \in 1..3 : PathOf(lines[i]) = <<"web-1", "cart">>
    /\ s2s[1].path_summary[<<"web-1", "cart">>].error_rate = Some(Rat(1, 2))

\* The totals carried by the probes of a path, in read order.
RECURSIVE OwnTotals(_, _)
OwnTotals(path, ls) ==
    IF ls = <<>> THEN <<>>
    ELSE (IF Head(ls).kind = "object" /\ PathOf(Head(ls)) = path
             /\ "total" \in DOMAIN Carried(Head(ls))
          THEN <<Carried(Head(ls))["total"]>> ELSE <<>>)
         \o OwnTotals(path, Tail(ls))

\* s with its elements in ascending order: the ascending sequence holding every
\* value as often as s does.
Ascending(s) ==
    CHOOSE t \in [1..Len(s) -> {s[i] : i \in 1..Len(s)}] :
        /\ IsSorted(t)
        /\ \A v \in {s[i] : i \in 1..Len(s)} :
              Cardinality({i \in 1..Len(s) : s[i] = v})
                  = Cardinality({i \in 1..Len(t) : t[i] = v})

LinePaths == {PathOf(lines[i]) : i \in {j \in 1..Len(lines) : lines[j].kind = "object"}}

\* C11: every path with at least one probe carrying a total has an entry whose
\* samples is the number of such probes, total_avg_ms their mean and
\* total_p95_ms / total_p99_ms the percentile of their totals sorted ascending,
\* whatever the read order; totals 100, 200, 300 without a code give mean 200,
\* p95 290 and error_rate None.
C11_PathTotals ==
    pc = "summarized" =>
        \A path \in LinePaths :
            LET own == OwnTotals(path, lines)
                ps  == s2s[1].path_summary
            IN  /\ (path \in DOMAIN ps) <=> (own # <<>>)
                /\ own # <<>> =>
                      /\ ps[path].samples = Len(own)
                      /\ RatEq(ps[path].total_avg_ms[1], Rat(SumSeq(own), Len(own)))
                      /\ ps[path].total_p95_ms = percentile(Ascending(own), 95)
                      /\ ps[path].total_p99_ms = percentile(Ascending(own), 99)
                /\ Ascending(own) = <<100, 200, 300>> =>
                      /\ RatEq(ps[path].total_avg_ms[1], Rat(200, 1))
                      /\ RatEq(ps[path].total_p95_ms[1], Rat(290, 1))
                      /\ ps[path].error_rate = None

\* The totals 300, 100, 200 read out of order on one path.
C11_Witness ==
    /\ pc = "summarized"
    /\ OwnTotals(<<"web-1", "cart">>, lines) = <<300, 100, 200>>
    /\ s2s[1].path_summary[<<"web-1", "cart">>].samples = 3
    /\ RatEq(s2s[1].path_summary[<<"web-1", "cart">>].total_p95_ms[1], Rat(290, 1))
    /\ s2s[1].path_summary[<<"web-1", "cart">>].error_rate = None

----------------------------------------------------------------------------
(* Claims about locality classification, checked under SpecLocality *)

Probes == {i \in 1..Len(lines) : lines[i].kind = "object"}

\* The target service of probe i has a non-empty known node set.
HasNodeSet(i) == Get(service_to_nodes, lines[i].row.target_service, {}) # {}

\* Probe i carries a source node that is not the "unknown" sentinel.
KnownSource(i) ==
    /\ "source_node" \in DOMAIN lines[i].row
    /\ lines[i].row.source_node \notin {"", "unknown"}

Classifiable(i) == KnownSource(i) /\ HasNodeSet(i)

SameNode(i) ==
    /\ Classifiable(i)
    /\ lines[i].row.source_node \in service_to_nodes[lines[i].row.target_service]

CrossNode(i) == Classifiable(i) /\ ~SameNode(i)

AppPair(i) == <<pod_to_app(lines[i].row.source_pod), lines[i].row.target_service>>

AppPairs == {AppPair(i) : i \in Probes}

NoCounts == [total |-> 0, cross |-> 0]

Summarized == pc \in {"summarized", "loaded", "ratio", "cdf"}

Counted06 == pc \in {"ratio", "cdf"}

\* The totals of the probes of index set S that carry one, in read order.
RECURSIVE TotalsOf(_, _)
TotalsOf(S, i) ==
    IF i > Len(lines) THEN <<>>
    ELSE (IF i \in S /\ "total" \in DOMAIN Carried(lines[i])
          THEN <<Carried(lines[i])["total"]>> ELSE <<>>)
         \o TotalsOf(S, i + 1)

\* C12: a probe whose target service has no known node set (absent from
\* service_to_nodes or mapped to the empty set) is counted neither in the total
\* nor in the cross-node count of a pair of plot_cross_node_ratio, nor in the
\* counters behind intra_node_ratio.
C12_UnknownTargetExcluded ==
    /\ Summarized =>
          /\ all_total <= Cardinality({i \in Probes : HasNodeSet(i)})
          /\ same_node_total <= Cardinality({i \in Probes : HasNodeSet(i)})
    /\ Counted06 =>
          \A pair \in AppPairs :
              LET known == {i \in Probes : AppPair(i) = pair /\ HasNodeSet(i)}
                  c     == Get(pair_counts, pair, NoCounts)
              IN  /\ c.total <= Cardinality(known)
                  /\ c.cross <= Cardinality(known)

\* C13: a probe is classified only if its source node is known and its target
\* service has a non-empty node set, same-node iff the source node is in that
\* set and cross-node otherwise; a probe with a missing or "unknown" source
\* node is not in the denominator of intra_node_ratio, in no latency pool and
\* in no cross-node count.
C13_ClassifiedOnlyWhenKnown ==
    /\ Summarized =>
          /\ all_total = Cardinality({i \in Probes : Classifiable(i)})
          /\ same_node_total = Cardinality({i \in Probes : SameNode(i)})
    /\ Counted06 =>
          \A pair \in AppPairs :
              Get(pair_counts, pair, NoCounts).cross
                  = Cardinality({i \in Probes : AppPair(i) = pair /\ CrossNode(i)})
    /\ pc = "cdf" =>
          /\ same_node = TotalsOf({i \in Probes : SameNode(i)}, 1)
          /\ cross_node = TotalsOf({i \in Probes : CrossNode(i)}, 1)

\* C14: the probes classified same-node plus those classified cross-node are
\* exactly the classifiable probes: in the analyzer's counters, in every pair
\* of plot_cross_node_ratio and in the two latency pools.
C14_ClassesPartitionClassifiable ==
    /\ Summarized =>
          /\ same_node_total <= all_total
          /\ all_total = Cardinality({i \in Probes : Classifiable(i)})
    /\ Counted06 =>
          \A pair \in AppPairs :
              LET c == Get(pair_counts, pair, NoCounts)
              IN  (c.total - c.cross) + c.cross
                      = Cardinality({i \in Probes : AppPair(i) = pair /\ Classifiable(i)})
    /\ pc = "cdf" =>
          Len(same_node) + Len(cross_node)
              = Len(TotalsOf({i \in Probes : Classifiable(i)}, 1))

\* C15: the cross-node ratio of every pair is its cross count over its total
\* count (times 100, as plotted), between 0 and 1 with cross <= total; with a
\* zero total the ratio is 0 and the divisor is 1; intra_node_ratio is
\* same_node_total / all_total when all_total > 0 and None otherwise, never a
\* quotient by zero.
C15_RatioWellDefined ==
    /\ Counted06 =>
          /\ DOMAIN pair_counts = AppPairs
          /\ \A pair \in DOMAIN pair_counts :
                LET c     == pair_counts[pair]
                    ratio == CrossNodeRatio(c)
                IN  /\ c.total = Cardinality({i \in Probes : AppPair(i) = pair})
                    /\ c.cross = Cardinality({i \in Probes :
                                    /\ AppPair(i) = pair
                                    /\ Get(lines[i].row, "source_node", "unknown")
                                          \notin Get(service_to_nodes,
                                                     lines[i].row.target_service, {})})
                    /\ 0 <= c.cross /\ c.cross <= c.total
                    /\ ratio[2] > 0
                    /\ RatEq(ratio, Rat(c.cross * 100, c.total))
                    /\ RatLe(Rat(0, 1), ratio) /\ RatLe(ratio, Rat(100, 1))
          /\ CrossNodeRatio(NoCounts)[2] > 0
          /\ RatEq(CrossNodeRatio(NoCounts), Rat(0, 1))
    /\ Summarized =>
          LET intra == s2s[1].global_summary.intra_node_ratio
          IN  /\ (intra = None) <=> (all_total = 0)
              /\ intra # None =>
                    /\ intra[1][2] > 0
                    /\ intra[1] = Rat(same_node_total, all_total)
                    /\ RatLe(Rat(0, 1), intra[1]) /\ RatLe(intra[1], Rat(1, 1))

\* Two probes of one pair, one from a node of the target and one from another
\* node: the pair's ratio is 50 percent and intra_node_ratio 1/2.
C15_Witness ==
    /\ pc = "cdf"
    /\ Len(lines) = 2
    /\ DOMAIN pair_counts = {<<<<"web">>, "cart">>}
    /\ pair_counts[<<<<"web">>, "cart">>] = [total |-> 2, cross |-> 1]
    /\ RatEq(CrossNodeRatio(pair_counts[<<<<"web">>, "cart">>]), Rat(50, 1))
    /\ s2s[1].global_summary.intra_node_ratio = Some(Rat(1, 2))

----------------------------------------------------------------------------
(* Claims about build_latency_vs_replicas, checked under SpecReplicas *)

HpaTimestamps == {hpa_snapshots[i][1] : i \in 1..Len(hpa_snapshots)}

Stamped == {i \in Probes : "timestamp" \in DOMAIN lines[i].row}

ProbeTimestamps == {lines[i].row.timestamp : i \in Stamped}

\* C16: the timestamps of the emitted rows are the union of the timestamps of
\* the autoscaler snapshots and of the probes, one row per timestamp, also
\* when there is no autoscaler snapshot and when the probes of a timestamp
\* carry no total.
C16_RowsAreTimestampUnion ==
    pc = "built" =>
        /\ rows # None
        /\ {rows[1][i].timestamp : i \in 1..Len(rows[1])} = HpaTimestamps \cup ProbeTimestamps
        /\ Len(rows[1]) = Cardinality(HpaTimestamps \cup ProbeTimestamps)

\* C17: in every emitted row s2s_p95_ms and s2s_p99_ms are the percentiles,
\* to two decimals, of the totals of the probes with exactly the row's
\* timestamp, and empty when there is none; the replica fields are those of
\* the autoscaler snapshot with that timestamp, and empty for a timestamp
\* without snapshot.
C17_RowFromOwnTimestamp ==
    (pc = "built" /\ rows # None) =>
        \A i \in 1..Len(rows[1]) :
            LET row   == rows[1][i]
                own   == TotalsOf({j \in Stamped : lines[j].row.timestamp = row.timestamp}, 1)
                snaps == {j \in 1..Len(hpa_snapshots) : hpa_snapshots[j][1] = row.timestamp}
            IN  /\ own = <<>> => row.s2s_p95_ms = None /\ row.s2s_p99_ms = None
                /\ own # <<>> =>
                      /\ row.s2s_p95_ms = Some(Round2(percentile(Ascending(own), 95)[1]))
                      /\ row.s2s_p99_ms = Some(Round2(percentile(Ascending(own), 99)[1]))
                /\ DOMAIN row.replicas = AllHpaNames(hpa_snapshots)
                /\ snaps = {} =>
                      \A name \in DOMAIN row.replicas :
                          row.replicas[name] = [desired |-> None, current |-> None]
                /\ \A j \in snaps :
                      \A name \in DOMAIN row.replicas :
                          row.replicas[name] =
                              IF name \in DOMAIN hpa_snapshots[j][2]
                              THEN hpa_snapshots[j][2][name]
                              ELSE [desired |-> None, current |-> None]

\* Snapshots at 1 and 2, probes with a total at 1 and 3: the row of 2 has no
\* percentile, the row of 3 has no replica counts.
C17_Witness ==
    /\ pc = "built"
    /\ rows # None
    /\ Len(rows[1]) = 3
    /\ rows[1][1].timestamp = 1 /\ rows[1][1].s2s_p95_ms = Some(Rat(10000, 100))
    /\ rows[1][1].replicas["web"] = [desired |-> Some(2), current |-> Some(1)]
    /\ rows[1][1].replicas["db"] = [desired |-> None, current |-> None]
    /\ rows[1][2].timestamp = 2 /\ rows[1][2].s2s_p95_ms = None
    /\ rows[1][2].replicas["db"] = [desired |-> Some(3), current |-> Some(3)]
    /\ rows[1][3].timestamp = 3 /\ rows[1][3].s2s_p99_ms = Some(Rat(20000, 100))
    /\ rows[1][3].replicas["web"] = [desired |-> None, current |-> None]

----------------------------------------------------------------------------
(* Claims about load_service_endpoint_nodes, checked under SpecEndpoints *)

\* The distinct endpoint files read so far that carry items.
ObjectFiles ==
    {endpoint_files[i] : i \in {j \in 1..Len(endpoint_files) : endpoint_files[j].kind = "object"}}

\* The service an item is listed under.
ListedService(item) == IF "name" \in DOMAIN item THEN item.name ELSE "unknown"

\* The node names file lists for svc.
NodesListed(file, svc) ==
    UNION {{file.items[i].nodes[j] : j \in 1..Len(file.items[i].nodes)} \ {""}
              : i \in {k \in 1..Len(file.items) : ListedService(file.items[k]) = svc}}

ListedServices ==
    {svc \in UNION {{ListedService(f.items[i]) : i \in 1..Len(f.items)} : f \in ObjectFiles} :
        \E f \in ObjectFiles : NodesListed(f, svc) # {}}

\* The union, per service, over a set of files.
UnionOfFiles == [svc \in ListedServices |-> UNION {NodesListed(f, svc) : f \in ObjectFiles}]

\* C18: load_service_endpoint_nodes gives, for each service, the union over
\* the endpoint files of the nodes listed for it. The result depends on the
\* set of files only (not on their order, nor on a file being read twice),
\* every node a file lists is in the set of its service from then on, and the
\* graph generator's loader returns the same map.
C18_UnionOfEndpointFiles ==
    /\ pc \in {"endpoints", "endpoints_loaded", "graph_endpoints"} =>
          /\ service_to_nodes = UnionOfFiles
          /\ \A f \in ObjectFiles : \A svc \in ListedServices :
                NodesListed(f, svc) \subseteq service_to_nodes[svc]
    /\ pc = "graph_endpoints" => graph_nodes = UnionOfFiles

\* cart on n2 and db on n1 read before cart on n1, and the first file again.
C18_Witness ==
    /\ pc = "graph_endpoints"
    /\ Len(endpoint_files) = 3
    /\ endpoint_files[1] = endpoint_files[3]
    /\ endpoint_files[2] = EndpointFile(<<NamedEndpoints("cart", <<"n1">>)>>)
    /\ service_to_nodes = [svc \in {"cart", "db"} |-> IF svc = "cart" THEN {"n1", "n2"} ELSE {"n1"}]
    /\ graph_nodes = service_to_nodes

----------------------------------------------------------------------------
(* Order independence of load_service_to_service, checked under SpecTiming *)

Perms(n) == {f \in [1..n -> 1..n] : \A i, j \in 1..n : i # j => f[i] # f[j]}

Permuted(ls, f) == [i \in 1..Len(ls) |-> ls[f[i]]]

\* C19: the path_summary, node_pair_summary and global_summary returned for
\* the probe file are those returned for every permutation of its lines,
\* queueing_avg_ms of each path included.
C19_OrderIndependent ==
    pc = "summarized" =>
        \A f \in Perms(Len(lines)) :
            load_service_to_service(Permuted(lines, f), service_to_nodes) = s2s[1]

\* The summary stored by the run is the one the folded loop gives.
FoldAgrees ==
    pc = "summarized" => s2s[1] = load_service_to_service(lines, service_to_nodes)

----------------------------------------------------------------------------
(* Malformed records, checked under SpecMalformed *)

WellFormed(line) == line.kind = "object"

\* C20: a probe line that is not valid structured data (not JSON, or JSON
\* that is no object) never aborts the run: it is skipped, and the summaries
\* are those of the file with the malformed lines removed.
C20_MalformedSkipped ==
    /\ pc # "raised"
    /\ pc = "summarized" =>
          s2s[1] = load_service_to_service(SelectSeq(lines, WellFormed), service_to_nodes)

----------------------------------------------------------------------------
(* The missing probe file, checked under SpecAbsent *)

NoRecords == \A i \in 1..Len(lines) : Skipped(lines[i])

\* C21: a missing probe file is treated as zero probe records: no run raises,
\* and the summary returned for a missing file is the one returned for a file
\* that exists and holds no record (no path, no node pair, path_count 0,
\* total_samples 0, intra_node_ratio None).
C21_AbsentAsEmpty ==
    /\ pc # "raised"
    /\ (pc = "summarized" /\ NoRecords) =>
          /\ s2s[1].path_summary = <<>>
          /\ s2s[1].node_pair_summary = <<>>
          /\ DOMAIN s2s[1].global_summary = {"path_count", "total_samples", "intra_node_ratio"}
          /\ s2s[1].global_summary.path_count = 0
          /\ s2s[1].global_summary.total_samples = 0
          /\ s2s[1].global_summary.intra_node_ratio = None

----------------------------------------------------------------------------
(* Claims about the probe parsers, checked under SpecParse *)

\* Token i has "=" and a value its key's conversion accepts: an integer
\* literal for code, a decimal or integer literal for any other key.
WellFormedToken(i) ==
    /\ raw_probe[i].eq
    /\ IF raw_probe[i].k = "code" THEN raw_probe[i].v.form = "int"
       ELSE raw_probe[i].v.form \in {"dec", "int"}

\* The value of a well-formed token: the integer for code, milliseconds else.
TokenValue(i) ==
    IF raw_probe[i].k = "code" THEN raw_probe[i].v.n
    ELSE IF raw_probe[i].v.form = "dec" THEN raw_probe[i].v.n
    ELSE raw_probe[i].v.n * 1000

LastWellFormed(k) ==
    MaxOf({i \in 1..Len(raw_probe) : WellFormedToken(i) /\ raw_probe[i].k = k})

\* Token i has "=" and a value float() accepts.
NumericToken(i) == raw_probe[i].eq /\ raw_probe[i].v.form \in {"dec", "int"}

\* C22: parse_probe_kv returns for every probe string a mapping whose keys
\* are exactly the keys of the well-formed tokens, each with the value of its
\* last well-formed occurrence; a token without "=" or with a value that does
\* not parse contributes nothing and does not stop the tokens after it. The
\* inline parser of the graph generator likewise keeps exactly the keys of the
\* tokens whose value parses.
C22_ParserKeepsWellFormed ==
    /\ pc \in {"parsed", "inline_parsed"} =>
          /\ DOMAIN kv = {raw_probe[i].k : i \in {j \in 1..Len(raw_probe) : WellFormedToken(j)}}
          /\ \A k \in DOMAIN kv : kv[k] = TokenValue(LastWellFormed(k))
    /\ pc = "inline_parsed" =>
          /\ DOMAIN kv_inline
                = {raw_probe[i].k : i \in {j \in 1..Len(raw_probe) : NumericToken(j)}}
          /\ \A k \in DOMAIN kv_inline :
                LET last == MaxOf({i \in 1..Len(raw_probe) :
                                      NumericToken(i) /\ raw_probe[i].k = k})
                IN  kv_inline[k] = IF raw_probe[last].v.form = "dec"
                                   THEN raw_probe[last].v.n
                                   ELSE raw_probe[last].v.n * 1000

\* "total=abc junk total=0.1" style input: a bad value and a bare word before
\* a good token, whose value is kept.
C22_Witness ==
    /\ pc = "inline_parsed"
    /\ raw_probe = <<Tok("total", NaN), Word, Tok("total", Dec(100))>>
    /\ kv = [k \in {"total"} |-> 100]
    /\ kv_inline = kv

\* C28: the inline parser of load_s2s_data and parse_probe_kv return the same
\* mapping for every probe string: the same keys and, for every key, code
\* included, the same value.
C28_ParsersAgree ==
    pc = "inline_parsed" => kv_inline = kv

----------------------------------------------------------------------------
(* Claims about burst QPS, checked under SpecE2E *)

\* The burst files with a payload.
Results == {i \in 1..Len(burst_files) : burst_files[i].kind = "object"}

\* The burst indices the analyzer sees.
BurstIndices == {BurstNames[burst_files[i].name].idx[1] :
                    i \in {j \in Results : BurstNames[burst_files[j].name].idx # None}}

RECURSIVE SumQps(_)
SumQps(S) ==
    IF S = {} THEN 0
    ELSE LET i == MinOf(S) IN burst_files[i].actual_qps + SumQps(S \ {i})

\* The sum of actual_qps over the results of burst index idx.
CombinedQps(idx) ==
    SumQps({i \in Results : BurstNames[burst_files[i].name].idx = Some(idx)})

----------------------------------------------------------------------------
(* The app name of a pod, checked under SpecPodApp *)

\* The name whose only token is empty is the empty string.
EmptyName == <<"">>

\* C24: pod_to_app returns the pod name without its last two dash-delimited
\* tokens or the name unchanged; it never removes one token only and never
\* returns the empty string for a non-empty name.
C24_StripsTwoTokens ==
    pc = "app" =>
        /\ \/ ret_app = arg_pod
           \/ Len(arg_pod) >= 3 /\ ret_app = SubSeq(arg_pod, 1, Len(arg_pod) - 2)
        /\ ~(Len(arg_pod) >= 2 /\ ret_app = SubSeq(arg_pod, 1, Len(arg_pod) - 1))
        /\ arg_pod # EmptyName => ret_app # EmptyName

----------------------------------------------------------------------------
(* Claims about node_pair_summary, checked under SpecNodePairs *)

\* Probe i carries a total.
HasTotal(i) == "total" \in DOMAIN Carried(lines[i])

NodePairOf(i) == <<lines[i].row.source_node, lines[i].row.target_service>>

\* The probes of a node pair: a total and a known source node.
PairProbes(pair) ==
    {i \in Probes : KnownSource(i) /\ HasTotal(i) /\ NodePairOf(i) = pair}

NodePairs == {NodePairOf(i) : i \in {j \in Probes : KnownSource(j) /\ HasTotal(j)}}

\* C25: node_pair_summary has one entry for every (source_node,
\* target_service) pair with at least one probe carrying a total and a known
\* source node, and no other; its samples is the number of those probes and
\* its total_p95_ms / total_p99_ms the percentile of their totals sorted
\* ascending, whatever pods (paths) the probes come from.
C25_NodePairSummary ==
    pc = "summarized" =>
        LET nps == s2s[1].node_pair_summary
        IN  /\ DOMAIN nps = NodePairs
            /\ \A pair \in NodePairs :
                  LET own == TotalsOf(PairProbes(pair), 1)
                  IN  /\ nps[pair].source_node = pair[1]
                      /\ nps[pair].target_service = pair[2]
                      /\ nps[pair].samples = Cardinality(PairProbes(pair))
                      /\ nps[pair].total_p95_ms = percentile(Ascending(own), 95)
                      /\ nps[pair].total_p99_ms = percentile(Ascending(own), 99)

\* Probes of two pods from n1 with totals 300 and 100, and one without source
\* node: one entry, 2 samples, p95 290.
C25_Witness ==
    /\ pc = "summarized"
    /\ Len(lines) = 3
    /\ lines[1] = ProbeRow("web-1", "cart", "n1", <<Tok("total", Dec(300))>>)
    /\ lines[2] = ProbeRow("web-2", "cart", "n1", <<Tok("total", Dec(100))>>)
    /\ ~KnownSource(3) /\ HasTotal(3)
    /\ DOMAIN s2s[1].node_pair_summary = {<<"n1", "cart">>}
    /\ s2s[1].node_pair_summary[<<"n1", "cart">>].samples = 2
    /\ RatEq(s2s[1].node_pair_summary[<<"n1", "cart">>].total_p95_ms[1], Rat(290, 1))
    /\ DOMAIN s2s[1].path_summary = {<<"web-1", "cart">>, <<"web-2", "cart">>}

----------------------------------------------------------------------------
(* Range and monotonicity of percentile, checked under SpecStat *)

\* C26: for every non-empty ascending list and every q in 0..100,
\* percentile(values, q) lies between the first and the last value, the index
\* ceil((n-1)*q/100) is at most n-1, and the percentile does not decrease
\* when q grows by one (hence it is non-decreasing in q).
C26_PercentileInRange ==
    (pc = "percentile" /\ values # <<>> /\ IsSorted(values)) =>
        /\ ret # None
        /\ RatLe(Rat(values[1], 1), ret[1])
        /\ RatLe(ret[1], Rat(values[Len(values)], 1))
        /\ RatCeil(Rat((Len(values) - 1) * q, 100)) <= Len(values) - 1
        /\ q < 100 => RatLe(ret[1], percentile(values, q + 1)[1])

C26_Witness ==
    /\ pc = "percentile"
    /\ values = <<1, 2, 4>>
    /\ q = 95
    /\ RatEq(ret[1], Rat(380, 100))
    /\ RatEq(percentile(values, 96)[1], Rat(384, 100))

----------------------------------------------------------------------------
(* Nearest-rank against interpolated p95, checked under SpecHeat *)

\* C27: for the totals of a (source_node, target_service) pair, the cell of
\* plot_node_pair_heatmap is the sorted total at index ceil(0.95 * (n - 1));
\* it is never smaller than the total_p95_ms of node_pair_summary, and equal
\* to it exactly when 0.95 * (n - 1) is an integer or the two neighbouring
\* samples are equal.
C27_NearestRankAboveInterpolated ==
    pc = "heat" =>
        /\ DOMAIN heat_p95 = DOMAIN s2s[1].node_pair_summary
        /\ \A pair \in DOMAIN heat_p95 :
              LET own    == sorted(TotalsOf(PairProbes(pair), 1))
                  n      == Len(own)
                  pos    == Rat(95 * (n - 1), 100)
                  interp == s2s[1].node_pair_summary[pair].total_p95_ms[1]
                  cell   == Rat(heat_p95[pair], 1)
              IN  /\ heat_p95[pair] = own[RatCeil(pos) + 1]
                  /\ RatLe(interp, cell)
                  /\ RatEq(interp, cell)
                        <=> (RatFloor(pos) = RatCeil(pos)
                             \/ own[RatFloor(pos) + 1] = own[RatCeil(pos) + 1])

\* 21 totals, one of 300 ms and twenty of 100 ms: 0.95 * 20 = 19 is an
\* integer and both figures are the total at index 19, though its upper
\* neighbour differs.
C27_Witness ==
    /\ pc = "heat"
    /\ lines = HeatFile(21, 1, 1)
    /\ heat_p95[<<"n1", "cart">>] = 100
    /\ RatEq(s2s[1].node_pair_summary[<<"n1", "cart">>].total_p95_ms[1], Rat(100, 1))

----------------------------------------------------------------------------
(* Agreement of the fields of one placement summary, checked under SpecPlace *)

\* The pods service_node_spread counts, and the pod names latest_node_to_pods
\* lists under a node other than "unknown".
SpreadPodCount ==
    LET spread == placement[1].service_node_spread
    IN  Cardinality({<<svc, node, k>> \in (DOMAIN spread) \X RealNodes \X (1..2) :
                        /\ node \in DOMAIN spread[svc].pod_count_by_node
                        /\ k <= spread[svc].pod_count_by_node[node]})

LatestPodCount ==
    LET latest == placement[1].latest_node_to_pods
    IN  Cardinality({<<node, i>> \in (DOMAIN latest \ {"unknown"}) \X (1..2) :
                        i <= Len(latest[node])})

\* C29: in every returned summary the pod_count_by_node values of
\* service_node_spread add up to the number of pod names latest_node_to_pods
\* lists under nodes other than "unknown", also when two supplied snapshots
\* carry the same timestamp.
C29_SpreadMatchesLatest ==
    pc = "placed" => SpreadPodCount = LatestPodCount

\* C30: given exactly one snapshot, service_node_spread_avg and
\* service_node_spread have the same services, and for every service and node
\* the averaged pod count equals the instantaneous one, a node absent from the
\* instantaneous entry counting as 0.
C30_SingleSnapshotAverage ==
    (pc = "placed" /\ Len(pod_snapshots) = 1) =>
        LET spread == placement[1].service_node_spread
            avg    == placement[1].service_node_spread_avg
        IN  /\ DOMAIN avg = DOMAIN spread
            /\ \A svc \in DOMAIN avg :
                  /\ DOMAIN spread[svc].pod_count_by_node
                        \subseteq DOMAIN avg[svc].pod_count_by_node
                  /\ \A node \in DOMAIN avg[svc].pod_count_by_node :
                        RatEq(avg[svc].pod_count_by_node[node],
                              Rat(Get(spread[svc].pod_count_by_node, node, 0), 1))

\* One snapshot with web on A and db on B: the average lists 0 for web on B,
\* a node the instantaneous entry of web does not have.
C30_Witness ==
    /\ pc = "placed"
    /\ pod_snapshots =
          << [timestamp |-> 1, items |-> <<PodOn("p1", "web", "A"), PodOn("p2", "db", "B")>>] >>
    /\ DOMAIN placement[1].service_node_spread["web"].pod_count_by_node = {"A"}
    /\ RatEq(placement[1].service_node_spread_avg["web"].pod_count_by_node["B"], Rat(0, 1))
    /\ RatEq(placement[1].service_node_spread_avg["web"].pod_count_by_node["A"], Rat(1, 1))

====
